---- MODULE Spec2Model ----
(***************************************************************************)
(* Model of the notarize-and-verify-pr action (main.go).                   *)
(*                                                                         *)
(* One run of main(): the required-approvers argument is split and         *)
(* trimmed, one API key per required approver is looked up and then        *)
(* created or rotated in the key directory (CNIL REST API), the commit is  *)
(* notarized with the key of the acting approver when that approver is     *)
(* required, every required approver is verified on the ledger, and the    *)
(* run succeeds when all of them are notarized with status Trusted.        *)
(*                                                                         *)
(* A string is a sequence of symbols: a user name ("alice"), a blank       *)
(* (" "), the list separator (",") or the identity suffix ("@github").     *)
(***************************************************************************)
EXTENDS Integers, Sequences, FiniteSets, TLC

\* ---------------------------------------------------------------- bounds
\* Largest number of comma-separated entries of the required-approvers argument.
MaxEntries == 2

\* ------------------------------------------------------------- constants
identitySuffix == <<"@github">>

StatusTrusted == "Trusted"
StatusUntrusted == "Untrusted"
StatusUnknown == "Unknown"
StatusUnsupported == "Unsupported"
StatusApikeyRevoked == "ApikeyRevoked"
Statuses ==
    {StatusTrusted, StatusUntrusted, StatusUnknown, StatusUnsupported, StatusApikeyRevoked}

\* A nil pointer: no API key response, no ledger artifact.
Nil == [nil |-> TRUE]

\* ------------------------------------------------------- string functions
\* strings.TrimSpace: the leading and the trailing blanks are removed.
RECURSIVE TrimLeft(_)
TrimLeft(s) ==
    IF s = <<>> THEN <<>>
    ELSE IF Head(s) = " " THEN TrimLeft(Tail(s)) ELSE s

RECURSIVE TrimRight(_)
TrimRight(s) ==
    IF s = <<>> THEN <<>>
    ELSE IF s[Len(s)] = " " THEN TrimRight(SubSeq(s, 1, Len(s) - 1)) ELSE s

TrimSpace(s) == TrimRight(TrimLeft(s))

\* strings.Split(s, sep) for a one-symbol separator: the pieces between the
\* separators, in order; a string without separator is its own single piece.
RECURSIVE SplitFrom(_, _, _)
SplitFrom(s, sep, piece) ==
    IF s = <<>> THEN <<piece>>
    ELSE IF Head(s) = sep THEN <<piece>> \o SplitFrom(Tail(s), sep, <<>>)
    ELSE SplitFrom(Tail(s), sep, Append(piece, Head(s)))

Split(s, sep) == SplitFrom(s, sep, <<>>)

\* strings.Join(pieces, sep); builds the argument strings of the initial states.
RECURSIVE Join(_, _)
Join(pieces, sep) ==
    IF pieces = <<>> THEN <<>>
    ELSE IF Len(pieces) = 1 THEN pieces[1]
    ELSE pieces[1] \o <<sep>> \o Join(Tail(pieces), sep)

\* requireArg: the trimmed argument; an argument that is empty after trimming
\* aborts the run.
requireArg(arg) == [val |-> TrimSpace(arg), ok |-> Len(TrimSpace(arg)) # 0]

\* ------------------------------------------------------------ input sets
\* Entries of the required-approvers list as they may be typed.
RawEntries == {<<>>, <<"alice">>, <<" ", "alice", " ">>, <<"bob">>}

\* The identities the entries name.
Identities == {TrimSpace(e) : e \in RawEntries} \ {<<>>}

\* The acting approver: a listed user or an outsider.
Approvers == Identities \cup {<<"carol">>}

SignerIDOf(requiredApprover) == requiredApprover \o identitySuffix

SignerIDs == {SignerIDOf(i) : i \in Identities}

EntryLists == UNION {[1..n -> RawEntries] : n \in 1..MaxEntries}

\* The identities an entry list names.
NamedIn(list) == {TrimSpace(list[k]) : k \in 1..Len(list)} \ {<<>>}

\* --------------------------------------------------------------- ledger
\* A ledger record of the artifact for one signer: the status it was signed
\* with, the revocation timestamp of the signing API key (<<>> is a nil
\* pointer, <<0>> the zero time) and whether the ledger's proof verifies.
NoRecord == [none |-> TRUE]

Record(status, revoked, verified) ==
    [status |-> status, revoked |-> revoked, verified |-> verified]

\* The record a signature with the zero (Trusted) status leaves.
SignedRecord == Record(StatusTrusted, <<>>, TRUE)

\* The records a ledger may hold for a signer when a run starts.
RecordsAtStart ==
    {NoRecord}
    \cup {Record(s, <<>>, TRUE) : s \in Statuses}
    \cup {Record(StatusTrusted, <<1>>, TRUE), Record(StatusTrusted, <<0>>, TRUE),
          Record(StatusUntrusted, <<1>>, TRUE), Record(StatusTrusted, <<>>, FALSE)}

\* ------------------------------------------------------------- API keys
\* An API key secret: the n-th secret issued for a signer ID.
Key(signerID, n) == [signer |-> signerID, secret |-> n]

NoKey == Key(<<>>, 0)

\* The directory holds, per signer ID, the number of its live secret (0: no
\* entry for that signer ID).
IsLive(d, key) == key.signer \in DOMAIN d /\ key.secret # 0 /\ d[key.signer] = key.secret

VARIABLES
    args,                       \* os.Args: requiredApprovers and approver as given
    pc,                         \* position of main()
    requiredApprovers,          \* the trimmed required-approvers argument
    approver,                   \* the trimmed acting approver
    pending,                    \* entries of the list not yet reconciled
    apiKeyPerRequiredApprover,  \* map: identity -> API key
    cnilAPIKey,                 \* options.cnilAPIKey
    toVerify,                   \* identities the verification loop has not reached
    notarizedApprovers,         \* identities verified Trusted, in loop order
    report,                     \* printed verification result per identity
    outcome,                    \* "none", "success", "shortfall" or "fatal"
    abortedAt,                  \* the step at which the run aborted, or "none"
    calls,                      \* log of the external calls of the run
    dir,                        \* key directory: signer ID -> live secret number
    ledger,                     \* ledger: signer ID -> record of the artifact
    atStart,                    \* the directory and the ledger when the run started
    runs,                       \* number of the run on this commit
    approved,                   \* identities that approved in an earlier run without error
    artifact,                   \* the artifact extracted from the repository, or Nil
    other,                      \* a second run of main going on at the same time
    apiKeyFound                 \* the answer of getAPIKey a run waits to act on, or Nil

vars == <<args, pc, requiredApprovers, approver, pending, apiKeyPerRequiredApprover,
          cnilAPIKey, toVerify, notarizedApprovers, report, outcome, abortedAt, calls,
          dir, ledger, atStart, runs, approved, artifact, other, apiKeyFound>>

earlier == <<runs, approved, other, apiKeyFound>>

runVars == <<requiredApprovers, approver, pending, apiKeyPerRequiredApprover,
             cnilAPIKey, toVerify, notarizedApprovers, report>>

EmptyMap == [i \in {} |-> NoKey]

\* No second run is going on.
NoOtherRun ==
    [pc |-> "idle", approver |-> <<>>, pending |-> <<>>,
     apiKeyPerRequiredApprover |-> EmptyMap, toVerify |-> {},
     notarizedApprovers |-> <<>>, outcome |-> "none", abortedAt |-> "none",
     calls |-> <<>>, apiKeyFound |-> Nil]

Call(op, who, key, res) == [op |-> op, who |-> who, key |-> key, res |-> res]

\* vcnArtifactFromGitRepo: the first artifact the extractor returns for the
\* repository, the commit that is checked out.
GitArtifact == [Hash |-> "head", Name |-> "head"]

\* A call of the ledger client, with the hash of the artifact it is about and
\* whether the API key it was made with was live in the directory then.
LedgerCall(op, who, key, res, vcnArtifact) ==
    [op |-> op, who |-> who, key |-> key, res |-> res, hash |-> vcnArtifact.Hash,
     live |-> IsLive(dir, key)]

\* The state of main() at its first statement.
RunStart ==
    /\ pc = "validate"
    /\ requiredApprovers = <<>>
    /\ approver = <<>>
    /\ pending = <<>>
    /\ apiKeyPerRequiredApprover = EmptyMap
    /\ cnilAPIKey = NoKey
    /\ toVerify = {}
    /\ notarizedApprovers = <<>>
    /\ report = EmptyMap
    /\ outcome = "none"
    /\ abortedAt = "none"
    /\ calls = <<>>
    /\ atStart = [dir |-> dir, ledger |-> ledger]
    /\ artifact = Nil
    /\ apiKeyFound = Nil

\* A run on any argument list, with any directory and ledger content for the
\* signers the list names (the run reads no entry of another signer).
Init ==
    /\ \E list \in EntryLists, a \in Approvers :
          /\ args = [requiredApprovers |-> Join(list, ","), approver |-> a]
          /\ dir \in [SignerIDs -> {0, 1}]
          /\ ledger \in [SignerIDs -> RecordsAtStart]
          /\ \A i \in Identities \ NamedIn(list) :
                dir[SignerIDOf(i)] = 0 /\ ledger[SignerIDOf(i)] = NoRecord
    /\ RunStart
    /\ runs = 1
    /\ approved = {}
    /\ other = NoOtherRun

\* os.Exit(1) after an ABORTING message of the step `at`.
Abort(at) ==
    /\ pc' = "done"
    /\ outcome' = "fatal"
    /\ abortedAt' = at

\* The step goes on to position `next`.
Goto(next) ==
    /\ pc' = next
    /\ UNCHANGED <<outcome, abortedAt>>

\* main, lines 58-66: the arguments are trimmed and must not be empty.
ValidateInputs ==
    /\ pc = "validate"
    /\ LET ra == requireArg(args.requiredApprovers)
           ap == requireArg(args.approver)
       IN IF ra.ok /\ ap.ok
          THEN /\ requiredApprovers' = ra.val
               /\ approver' = ap.val
               /\ pending' = Split(ra.val, ",")
               /\ Goto("reconcile")
          ELSE /\ Abort("validate")
               /\ UNCHANGED <<requiredApprovers, approver, pending>>
    /\ UNCHANGED <<args, apiKeyPerRequiredApprover, cnilAPIKey, toVerify,
                   notarizedApprovers, report, calls, dir, ledger, atStart, earlier,
                   artifact>>

\* ------------------------------------------------- key directory (REST)
\* An API key as the directory returns it: the id of the entry and the secret.
APIKeyResponse(signerID, n) == [ID |-> signerID, Key |-> Key(signerID, n)]

\* GET /api_keys/identity/{signerID}: the entries of the signer, none when the
\* signer has no API key.
Items(d, signerID) ==
    IF d[signerID] = 0 THEN <<>> ELSE <<APIKeyResponse(signerID, d[signerID])>>

\* POST /ledgers/{ledgerID}/api_keys: a first secret is issued for the signer.
DirAfterCreate(d, signerID) == [d EXCEPT ![signerID] = @ + 1]

\* Variant: a rotation leaves the secret as it is.
DirAfterRotate_KeepsSecret(d, apiKeyID) == d

\* PUT /ledgers/{ledgerID}/api_keys/{id}/rotate: the live secret is replaced by
\* a new one, the old one is no longer valid.
DirAfterRotate(d, apiKeyID) == [d EXCEPT ![apiKeyID] = @ + 1]

\* How a request can end: answered as expected, refused or failed before the
\* directory applied it, or applied with the answer lost or unusable.
NetRead == {"ok", "error"}
NetWrite == {"ok", "refused", "lost"}

Result(apiKey, err) == [apiKey |-> apiKey, err |-> err]

\* Variant: the entries of the response are not looked at.
getAPIKey_AlwaysNotFound(net, items) ==
    IF net # "ok" THEN Result(Nil, "error") ELSE Result(Nil, "errAPIKeyNotFound")

\* getAPIKey: the first entry of the signer, errAPIKeyNotFound when there is
\* none, the request's error when it failed.
getAPIKey(net, items) ==
    IF net # "ok" THEN Result(Nil, "error")
    ELSE IF Len(items) = 0 THEN Result(Nil, "errAPIKeyNotFound")
    ELSE Result(items[1], "nil")

\* createAPIKey: the key of the response, or the request's error.
createAPIKey(net, response) ==
    IF net # "ok" THEN Result(Nil, "error") ELSE Result(response, "nil")

\* rotateAPIKey: the key of the response, or the request's error.
rotateAPIKey(net, response) ==
    IF net # "ok" THEN Result(Nil, "error") ELSE Result(response, "nil")

KeyOf(result) == IF result.apiKey = Nil THEN NoKey ELSE result.apiKey.Key

\* What the directory answered to a lookup, for the call log.
LookupAnswer(got) ==
    IF got.err = "nil" THEN "found"
    ELSE IF got.err = "errAPIKeyNotFound" THEN "notfound"
    ELSE "error"

\* Variant: every lookup error is taken for "not found".
IsNotFound_AnyError(err) == err # "nil"

\* errors.Is(err, errAPIKeyNotFound), line 220.
IsNotFound(err) == err = "errAPIKeyNotFound"

\* Variant: a key is created whether or not one was found.
createOrRotate_AlwaysCreates(d, signerID, found, netMod) ==
    IF IsNotFound(found.err) \/ found.err = "nil"
    THEN LET d2 == IF netMod = "refused" THEN d ELSE DirAfterCreate(d, signerID)
             made == createAPIKey(netMod, APIKeyResponse(signerID, d2[signerID]))
         IN [apiKey |-> made.apiKey, err |-> made.err, dir |-> d2,
             calls |-> <<Call("create", signerID, KeyOf(made),
                              IF made.err = "nil" THEN "ok" ELSE "error")>>]
    ELSE [apiKey |-> Nil, err |-> found.err, dir |-> d, calls |-> <<>>]

\* Variant: the key is rotated in the directory, the key of the lookup is kept.
createOrRotate_KeepsLookedUp(d, signerID, found, netMod) ==
    IF IsNotFound(found.err)
    THEN LET d2 == IF netMod = "refused" THEN d ELSE DirAfterCreate(d, signerID)
             made == createAPIKey(netMod, APIKeyResponse(signerID, d2[signerID]))
         IN [apiKey |-> made.apiKey, err |-> made.err, dir |-> d2,
             calls |-> <<Call("create", signerID, KeyOf(made),
                              IF made.err = "nil" THEN "ok" ELSE "error")>>]
    ELSE IF found.err = "nil"
    THEN LET id == found.apiKey.ID
             d2 == IF netMod = "refused" THEN d ELSE DirAfterRotate(d, id)
             made == rotateAPIKey(netMod, APIKeyResponse(id, d2[id]))
         IN [apiKey |-> IF made.err = "nil" THEN found.apiKey ELSE made.apiKey,
             err |-> made.err, dir |-> d2,
             calls |-> <<Call("rotate", id, KeyOf(made),
                              IF made.err = "nil" THEN "ok" ELSE "error")>>]
    ELSE [apiKey |-> Nil, err |-> found.err, dir |-> d, calls |-> <<>>]

\* Variant: a key that was found is used as it is, without rotation.
createOrRotate_ReuseFound(d, signerID, found, netMod) ==
    IF IsNotFound(found.err)
    THEN LET d2 == IF netMod = "refused" THEN d ELSE DirAfterCreate(d, signerID)
             made == createAPIKey(netMod, APIKeyResponse(signerID, d2[signerID]))
         IN [apiKey |-> made.apiKey, err |-> made.err, dir |-> d2,
             calls |-> <<Call("create", signerID, KeyOf(made),
                              IF made.err = "nil" THEN "ok" ELSE "error")>>]
    ELSE [apiKey |-> found.apiKey, err |-> found.err, dir |-> d, calls |-> <<>>]

\* getAndRotateOrCreateAPIKeys, lines 220-224, for one signer ID, on the
\* answer `found` of the lookup and the directory as it is when the second
\* request arrives: a create when no key was found, a rotate of the key that
\* was found, nothing on another error; the resulting key and error, the
\* directory afterwards and the call made.
createOrRotate(d, signerID, found, netMod) ==
    IF IsNotFound(found.err)
    THEN LET d2 == IF netMod = "refused" THEN d ELSE DirAfterCreate(d, signerID)
             made == createAPIKey(netMod, APIKeyResponse(signerID, d2[signerID]))
         IN [apiKey |-> made.apiKey, err |-> made.err, dir |-> d2,
             calls |-> <<Call("create", signerID, KeyOf(made),
                              IF made.err = "nil" THEN "ok" ELSE "error")>>]
    ELSE IF found.err = "nil"
    THEN LET id == found.apiKey.ID
             d2 == IF netMod = "refused" THEN d ELSE DirAfterRotate(d, id)
             made == rotateAPIKey(netMod, APIKeyResponse(id, d2[id]))
         IN [apiKey |-> made.apiKey, err |-> made.err, dir |-> d2,
             calls |-> <<Call("rotate", id, KeyOf(made),
                              IF made.err = "nil" THEN "ok" ELSE "error")>>]
    ELSE [apiKey |-> Nil, err |-> found.err, dir |-> d, calls |-> <<>>]

\* The lookup of getAndRotateOrCreateAPIKeys, line 219, as logged.
LookupCall(signerID, found) ==
    Call("lookup", signerID, KeyOf(found), LookupAnswer(found))

\* Variant: a key already in the map is kept.
Put_KeepFirst(m, k, v) == [x \in DOMAIN m \cup {k} |-> IF x \in DOMAIN m THEN m[x] ELSE v]

Put(m, k, v) == [x \in DOMAIN m \cup {k} |-> IF x = k THEN v ELSE m[x]]

\* Variant: an empty entry ends the loop (return for continue).
LookupStep_EmptyEntryEndsLoop ==
    /\ pc = "reconcile"
    /\ pending # <<>>
    /\ apiKeyFound = Nil
    /\ LET requiredApprover == TrimSpace(Head(pending))
       IN IF Len(requiredApprover) = 0
          THEN /\ pending' = <<>>
               /\ Goto("reconcile")
               /\ UNCHANGED <<calls, apiKeyFound>>
          ELSE \E netGet \in NetRead :
                  LET found == getAPIKey(netGet,
                                         Items(dir, SignerIDOf(requiredApprover)))
                  IN /\ calls' = Append(calls,
                                        LookupCall(SignerIDOf(requiredApprover), found))
                     /\ UNCHANGED pending
                     /\ IF found.err = "nil" \/ IsNotFound(found.err)
                        THEN apiKeyFound' = found /\ Goto("reconcile")
                        ELSE Abort("reconcile") /\ UNCHANGED apiKeyFound
    /\ UNCHANGED <<args, requiredApprovers, approver, apiKeyPerRequiredApprover,
                   cnilAPIKey, toVerify, notarizedApprovers, report, dir, ledger,
                   atStart, runs, approved, other, artifact>>

\* getAndRotateOrCreateAPIKeys, lines 211-219 and 225-228: the next entry is
\* trimmed; an empty entry is skipped; for any other the key of its signer ID
\* is looked up: the run goes on with a key or with "not found", any other
\* error returns from the function and main aborts (lines 83-90).
LookupStep ==
    /\ pc = "reconcile"
    /\ pending # <<>>
    /\ apiKeyFound = Nil
    /\ LET requiredApprover == TrimSpace(Head(pending))
       IN IF Len(requiredApprover) = 0
          THEN /\ pending' = Tail(pending)
               /\ Goto("reconcile")
               /\ UNCHANGED <<calls, apiKeyFound>>
          ELSE \E netGet \in NetRead :
                  LET found == getAPIKey(netGet,
                                         Items(dir, SignerIDOf(requiredApprover)))
                  IN /\ calls' = Append(calls,
                                        LookupCall(SignerIDOf(requiredApprover), found))
                     /\ UNCHANGED pending
                     /\ IF found.err = "nil" \/ IsNotFound(found.err)
                        THEN apiKeyFound' = found /\ Goto("reconcile")
                        ELSE Abort("reconcile") /\ UNCHANGED apiKeyFound
    /\ UNCHANGED <<args, requiredApprovers, approver, apiKeyPerRequiredApprover,
                   cnilAPIKey, toVerify, notarizedApprovers, report, dir, ledger,
                   atStart, runs, approved, other, artifact>>

\* Variant: a failure restores the directory the run started with.
CreateOrRotateStep_RollsBack ==
    /\ pc = "reconcile"
    /\ apiKeyFound # Nil
    /\ \E netMod \in NetWrite :
          LET requiredApprover == TrimSpace(Head(pending))
              r == createOrRotate(dir, SignerIDOf(requiredApprover), apiKeyFound,
                                  netMod)
          IN /\ calls' = calls \o r.calls
             /\ apiKeyFound' = Nil
             /\ IF r.err # "nil"
                THEN /\ Abort("reconcile")
                     /\ dir' = atStart.dir
                     /\ UNCHANGED <<pending, apiKeyPerRequiredApprover>>
                ELSE /\ dir' = r.dir
                     /\ apiKeyPerRequiredApprover' =
                          Put(apiKeyPerRequiredApprover, requiredApprover, KeyOf(r))
                     /\ pending' = Tail(pending)
                     /\ Goto("reconcile")
    /\ UNCHANGED <<args, requiredApprovers, approver, cnilAPIKey, toVerify,
                   notarizedApprovers, report, ledger, atStart, runs, approved, other,
                   artifact>>

\* Variant: the key is stored under the signer ID it was looked up with.
CreateOrRotateStep_StoresUnderSignerID ==
    /\ pc = "reconcile"
    /\ apiKeyFound # Nil
    /\ \E netMod \in NetWrite :
          LET requiredApprover == TrimSpace(Head(pending))
              r == createOrRotate(dir, SignerIDOf(requiredApprover), apiKeyFound,
                                  netMod)
          IN /\ calls' = calls \o r.calls
             /\ apiKeyFound' = Nil
             /\ IF r.err # "nil"
                THEN /\ Abort("reconcile")
                     /\ dir' = r.dir
                     /\ UNCHANGED <<pending, apiKeyPerRequiredApprover>>
                ELSE /\ dir' = r.dir
                     /\ apiKeyPerRequiredApprover' =
                          Put(apiKeyPerRequiredApprover, SignerIDOf(requiredApprover), KeyOf(r))
                     /\ pending' = Tail(pending)
                     /\ Goto("reconcile")
    /\ UNCHANGED <<args, requiredApprovers, approver, cnilAPIKey, toVerify,
                   notarizedApprovers, report, ledger, atStart, runs, approved, other,
                   artifact>>

\* getAndRotateOrCreateAPIKeys, lines 220-229, the second request of an
\* iteration: on the answer of the lookup a key is created or the key found
\* is rotated, in the directory as it is now; an error returns from the
\* function and main aborts (lines 83-90), otherwise the key is stored under
\* the trimmed entry.
CreateOrRotateStep ==
    /\ pc = "reconcile"
    /\ apiKeyFound # Nil
    /\ \E netMod \in NetWrite :
          LET requiredApprover == TrimSpace(Head(pending))
              r == createOrRotate(dir, SignerIDOf(requiredApprover), apiKeyFound,
                                  netMod)
          IN /\ calls' = calls \o r.calls
             /\ apiKeyFound' = Nil
             /\ IF r.err # "nil"
                THEN /\ Abort("reconcile")
                     /\ dir' = r.dir
                     /\ UNCHANGED <<pending, apiKeyPerRequiredApprover>>
                ELSE /\ dir' = r.dir
                     /\ apiKeyPerRequiredApprover' =
                          Put(apiKeyPerRequiredApprover, requiredApprover, KeyOf(r))
                     /\ pending' = Tail(pending)
                     /\ Goto("reconcile")
    /\ UNCHANGED <<args, requiredApprovers, approver, cnilAPIKey, toVerify,
                   notarizedApprovers, report, ledger, atStart, runs, approved, other,
                   artifact>>

\* main, lines 92-113: after the reconciliation returned without error the
\* artifact of the commit is extracted from the repository; a failure aborts.
ArtifactFromGitRepo ==
    /\ pc = "reconcile"
    /\ pending = <<>>
    /\ \E extracted \in BOOLEAN :
          IF extracted
          THEN Goto("notarize") /\ artifact' = GitArtifact
          ELSE Abort("artifact") /\ UNCHANGED artifact
    /\ UNCHANGED <<args, runVars, calls, dir, ledger, atStart, earlier>>

\* ----------------------------------------------- ledger (vcn transport)
\* How a ledger call can end: answered, no connection (NewLcUser or Connect
\* failed), or failed after connecting.
NetLedger == {"ok", "noconnection", "error"}

\* Variant: the record is signed with the status Untrusted.
Sign_Untrusted(l, d, key, net) ==
    IF net = "ok" /\ IsLive(d, key)
    THEN [ledger |-> [l EXCEPT ![key.signer] = Record(StatusUntrusted, <<>>, TRUE)],
          err |-> "nil"]
    ELSE [ledger |-> l, err |-> "error"]

\* vcnCNILUser.Sign with the zero status: the signer of the API key gets a
\* Trusted record of the artifact. A secret that is not live signs nothing.
Sign(l, d, key, net) ==
    IF net = "ok" /\ IsLive(d, key)
    THEN [ledger |-> [l EXCEPT ![key.signer] = SignedRecord], err |-> "nil"]
    ELSE [ledger |-> l, err |-> "error"]

\* Variant: the client connects and the artifact is never signed.
notarize_NoSign(l, d, key, net) ==
    [ledger |-> l, err |-> IF net = "ok" THEN "nil" ELSE "error"]

\* notarize: nil when the client connected and the artifact was signed.
notarize(l, d, key, net) ==
    IF net = "noconnection"
    THEN [ledger |-> l, err |-> "error"]
    ELSE Sign(l, d, key, net)

LcArtifact(signerID, rec) ==
    [Status |-> rec.status, Revoked |-> rec.revoked, Signer |-> signerID]

Loaded(cnilArtifact, verified, err) ==
    [artifact |-> cnilArtifact, verified |-> verified, err |-> err]

\* Variant: the ledger is read as it was when the run started.
LoadArtifact_AtStart(l, d, key, net) ==
    IF net # "ok" \/ ~IsLive(d, key) THEN Loaded(Nil, FALSE, "error")
    ELSE IF atStart.ledger[key.signer] = NoRecord THEN Loaded(Nil, FALSE, "ErrNotFound")
    ELSE Loaded(LcArtifact(key.signer, atStart.ledger[key.signer]),
                atStart.ledger[key.signer].verified, "nil")

\* Variant: the record is looked up by the secret that signed it, so that a
\* rotated key no longer finds it.
LoadArtifact_BySecret(l, d, key, net) ==
    IF net # "ok" \/ ~IsLive(d, key) THEN Loaded(Nil, FALSE, "error")
    ELSE IF l[key.signer] = NoRecord \/ key.secret # 1
    THEN Loaded(Nil, FALSE, "ErrNotFound")
    ELSE Loaded(LcArtifact(key.signer, l[key.signer]), l[key.signer].verified, "nil")

\* vcnCNILUser.LoadArtifact(artifact.Hash): the record of the artifact for the
\* signer of the API key and the outcome of the ledger's proof, ErrNotFound
\* when the signer has no record of it, an error when the call fails or the
\* secret is not live.
LoadArtifact(l, d, key, net) ==
    IF net # "ok" \/ ~IsLive(d, key) THEN Loaded(Nil, FALSE, "error")
    ELSE IF l[key.signer] = NoRecord THEN Loaded(Nil, FALSE, "ErrNotFound")
    ELSE Loaded(LcArtifact(key.signer, l[key.signer]), l[key.signer].verified, "nil")

Verified(cnilArtifact, err) == [artifact |-> cnilArtifact, err |-> err]

\* Variant: the revocation timestamp is not looked at.
verifyLoaded_NoRevocation(load) ==
    IF load.err = "ErrNotFound" THEN Verified(Nil, "nil")
    ELSE IF load.err # "nil" THEN Verified(Nil, "compromised")
    ELSE IF ~load.verified THEN Verified(Nil, "compromised")
    ELSE Verified(load.artifact, "nil")

\* Variant: the outcome of the ledger's proof is not looked at.
verifyLoaded_NoProofCheck(load) ==
    IF load.err = "ErrNotFound" THEN Verified(Nil, "nil")
    ELSE IF load.err # "nil" THEN Verified(Nil, "compromised")
    ELSE IF load.artifact.Revoked # <<>> /\ load.artifact.Revoked[1] # 0
    THEN Verified([load.artifact EXCEPT !.Status = StatusApikeyRevoked], "nil")
    ELSE Verified(load.artifact, "nil")

\* Variant: not found is an error like any other.
verifyLoaded_NotFoundIsError(load) ==
    IF load.err # "nil" THEN Verified(Nil, "compromised")
    ELSE IF ~load.verified THEN Verified(Nil, "compromised")
    ELSE IF load.artifact.Revoked # <<>> /\ load.artifact.Revoked[1] # 0
    THEN Verified([load.artifact EXCEPT !.Status = StatusApikeyRevoked], "nil")
    ELSE Verified(load.artifact, "nil")

\* Variant: an artifact that was found is dropped like one that was not.
verifyLoaded_FoundIsAbsent(load) ==
    IF load.err = "ErrNotFound" THEN Verified(Nil, "nil")
    ELSE IF load.err # "nil" THEN Verified(Nil, "compromised")
    ELSE IF ~load.verified THEN Verified(Nil, "compromised")
    ELSE Verified(Nil, "nil")

\* Variant: a proof that does not verify is taken for a missing notarization.
verifyLoaded_UnverifiedIsAbsent(load) ==
    IF load.err = "ErrNotFound" THEN Verified(Nil, "nil")
    ELSE IF load.err # "nil" THEN Verified(Nil, "compromised")
    ELSE IF ~load.verified THEN Verified(Nil, "nil")
    ELSE IF load.artifact.Revoked # <<>> /\ load.artifact.Revoked[1] # 0
    THEN Verified([load.artifact EXCEPT !.Status = StatusApikeyRevoked], "nil")
    ELSE Verified(load.artifact, "nil")

\* verify, lines 405-422, on the result of LoadArtifact: not found is no
\* error and no artifact; an error or a proof that does not verify is an
\* error; a revoked API key overrides the status.
verifyLoaded(load) ==
    IF load.err = "ErrNotFound" THEN Verified(Nil, "nil")
    ELSE IF load.err # "nil" THEN Verified(Nil, "compromised")
    ELSE IF ~load.verified THEN Verified(Nil, "compromised")
    ELSE IF load.artifact.Revoked # <<>> /\ load.artifact.Revoked[1] # 0
    THEN Verified([load.artifact EXCEPT !.Status = StatusApikeyRevoked], "nil")
    ELSE Verified(load.artifact, "nil")

\* Variant: a failed connection is taken for a missing notarization.
verify_ConnectionErrorIsAbsent(l, d, key, net) ==
    IF net = "noconnection" THEN Verified(Nil, "nil")
    ELSE verifyLoaded(LoadArtifact(l, d, key, net))

\* verify: the client connects, then loads and checks the artifact.
verify(l, d, key, net) ==
    IF net = "noconnection" THEN Verified(Nil, "connection")
    ELSE verifyLoaded(LoadArtifact(l, d, key, net))

\* What the ledger answered to a verify call, for the call log.
Answer(l, d, key, net) ==
    LET load == LoadArtifact(l, d, key, net)
    IN IF net = "noconnection" \/ load.err = "error" THEN "error"
       ELSE IF load.err = "ErrNotFound" THEN "notfound"
       ELSE IF ~load.verified THEN "unverified"
       ELSE "found"

\* Variant: the loop is left after its first iteration.
RangeOver_FirstOnly(m) == IF DOMAIN m = {} THEN {} ELSE {CHOOSE i \in DOMAIN m : TRUE}

\* main, line 135: the loop ranges over the keys of the map, each once, in an
\* order the language leaves open.
RangeOver(m) == DOMAIN m

\* Variant: the loop is left after the iteration (break for continue).
RestAfter_Break(rest, visited) == {}

\* Variant: the visited key stays in the range (the loop never ends).
RestAfter_Keeps(rest, visited) == rest

RestAfter(rest, visited) == rest \ {visited}

\* Variant: the approver is looked up under its suffixed signer ID.
NotarizationDue_Suffixed(m, a) == SignerIDOf(a) \in DOMAIN m

\* main, line 116: the acting approver is notarized when the map has a key
\* for it.
NotarizationDue(m, a) == a \in DOMAIN m

\* main, lines 115-128: the artifact is notarized with the key of the acting
\* approver if that approver is required, and not otherwise; a notarization
\* error aborts.
NotarizeStep ==
    /\ pc = "notarize"
    /\ IF NotarizationDue(apiKeyPerRequiredApprover, approver)
       THEN \E net \in NetLedger :
               LET notarizationKey == apiKeyPerRequiredApprover[approver]
                   r == notarize(ledger, dir, notarizationKey, net)
               IN /\ cnilAPIKey' = notarizationKey
                  /\ ledger' = r.ledger
                  /\ calls' = Append(calls,
                                     LedgerCall("notarize", approver, notarizationKey,
                                                IF r.err = "nil" THEN "ok" ELSE "error",
                                                artifact))
                  /\ IF r.err # "nil"
                     THEN Abort("notarize") /\ UNCHANGED toVerify
                     ELSE /\ Goto("verify")
                          /\ toVerify' = RangeOver(apiKeyPerRequiredApprover)
       ELSE /\ Goto("verify")
            /\ toVerify' = RangeOver(apiKeyPerRequiredApprover)
            /\ UNCHANGED <<cnilAPIKey, ledger, calls>>
    /\ UNCHANGED <<args, requiredApprovers, approver, pending, apiKeyPerRequiredApprover,
                   notarizedApprovers, report, dir, atStart, earlier,
                   artifact>>

\* Variant: every status but Untrusted counts.
IsNotarized_NotUntrusted(cnilArtifact) == cnilArtifact.Status # StatusUntrusted

\* Variant: an approver counts as notarized whatever the status found.
IsNotarized_AnyStatus(cnilArtifact) == TRUE

\* main, line 155: an approver counts as notarized when the status is Trusted.
IsNotarized(cnilArtifact) == cnilArtifact.Status = StatusTrusted

\* Variant: the key left in the options by an earlier call is used again.
VerifyStep_KeepsOptionsKey ==
    /\ pc = "verify"
    /\ \E requiredApprover \in toVerify, net \in NetLedger :
          LET apiKey == IF cnilAPIKey # NoKey THEN cnilAPIKey
                        ELSE apiKeyPerRequiredApprover[requiredApprover]
              r == verify(ledger, dir, apiKey, net)
          IN /\ cnilAPIKey' = apiKey
             /\ calls' = Append(calls,
                                LedgerCall("verify", requiredApprover, apiKey,
                                           Answer(ledger, dir, apiKey, net), artifact))
             /\ IF r.err # "nil"
                THEN /\ Abort("verify")
                     /\ UNCHANGED <<toVerify, notarizedApprovers, report>>
                ELSE /\ toVerify' = RestAfter(toVerify, requiredApprover)
                     /\ Goto("verify")
                     /\ IF r.artifact = Nil
                        THEN /\ report' = Put(report, requiredApprover, "absent")
                             /\ UNCHANGED notarizedApprovers
                        ELSE /\ report' = Put(report, requiredApprover, r.artifact.Status)
                             /\ notarizedApprovers' =
                                  IF IsNotarized(r.artifact)
                                  THEN Append(notarizedApprovers, requiredApprover)
                                  ELSE notarizedApprovers
    /\ UNCHANGED <<args, requiredApprovers, approver, pending, apiKeyPerRequiredApprover,
                   dir, ledger, atStart, earlier,
                   artifact>>

\* main, lines 135-171, one iteration of the loop over the map, in any order:
\* the approver is verified with its own key; an error aborts, no artifact is
\* reported and skipped, a Trusted artifact is counted as notarized.
VerifyStep ==
    /\ pc = "verify"
    /\ \E requiredApprover \in toVerify, net \in NetLedger :
          LET apiKey == apiKeyPerRequiredApprover[requiredApprover]
              r == verify(ledger, dir, apiKey, net)
          IN /\ cnilAPIKey' = apiKey
             /\ calls' = Append(calls,
                                LedgerCall("verify", requiredApprover, apiKey,
                                           Answer(ledger, dir, apiKey, net), artifact))
             /\ IF r.err # "nil"
                THEN /\ Abort("verify")
                     /\ UNCHANGED <<toVerify, notarizedApprovers, report>>
                ELSE /\ toVerify' = RestAfter(toVerify, requiredApprover)
                     /\ Goto("verify")
                     /\ IF r.artifact = Nil
                        THEN /\ report' = Put(report, requiredApprover, "absent")
                             /\ UNCHANGED notarizedApprovers
                        ELSE /\ report' = Put(report, requiredApprover, r.artifact.Status)
                             /\ notarizedApprovers' =
                                  IF IsNotarized(r.artifact)
                                  THEN Append(notarizedApprovers, requiredApprover)
                                  ELSE notarizedApprovers
    /\ UNCHANGED <<args, requiredApprovers, approver, pending, apiKeyPerRequiredApprover,
                   dir, ledger, atStart, earlier,
                   artifact>>

\* Variant: one notarized approver is enough.
AllNotarized_AtLeastOne(notarized, m) == Len(notarized) > 0 \/ DOMAIN m = {}

\* Variant: an empty map does not count as notarized by all.
AllNotarized_NonEmpty(notarized, m) ==
    Len(notarized) = Cardinality(DOMAIN m) /\ DOMAIN m # {}

\* main, line 175: the run succeeds when as many approvers are notarized as
\* the map has keys.
AllNotarized(notarized, m) == Len(notarized) = Cardinality(DOMAIN m)

\* main, lines 172-188: after the loop the run exits with 1 unless every
\* required approver is notarized.
Aggregate ==
    /\ pc = "verify"
    /\ toVerify = {}
    /\ pc' = "done"
    /\ outcome' = IF AllNotarized(notarizedApprovers, apiKeyPerRequiredApprover)
                  THEN "success"
                  ELSE "shortfall"
    /\ UNCHANGED <<args, runVars, abortedAt, calls, dir, ledger, atStart, earlier,
                   artifact>>

Next ==
    \/ ValidateInputs
    \/ LookupStep
    \/ CreateOrRotateStep
    \/ ArtifactFromGitRepo
    \/ NotarizeStep
    \/ VerifyStep
    \/ Aggregate

Spec == Init /\ [][Next]_vars

\* ======================================================================
\* Properties
\* ======================================================================
Range(seq) == {seq[k] : k \in 1..Len(seq)}

CountCalls(op, who) == Len(SelectSeq(calls, LAMBDA c : c.op = op /\ c.who = who))

NotarizeCalls == SelectSeq(calls, LAMBDA c : c.op = "notarize")

VerifyCalls == SelectSeq(calls, LAMBDA c : c.op = "verify")

DirectoryOps == {"lookup", "create", "rotate"}

\* The reconciliation returned a map and the artifact was extracted: the
\* notarization and verification part of main was entered.
EngineEntered ==
    \/ pc \in {"notarize", "verify"}
    \/ pc = "done" /\ abortedAt \in {"none", "notarize", "verify"}

\* The notarization step is over without error.
NotarizationPassed ==
    \/ pc = "verify"
    \/ pc = "done" /\ abortedAt \in {"none", "verify"}

\* The run went through the whole verification loop.
FullPass == pc = "done" /\ outcome \in {"success", "shortfall"}

\* The ledger holds a verifiable, unrevoked Trusted record for the identity.
TrustedOnLedger(l, i) ==
    LET rec == l[SignerIDOf(i)]
    IN /\ rec # NoRecord
       /\ rec.verified
       /\ rec.status = StatusTrusted
       /\ ~(rec.revoked # <<>> /\ rec.revoked[1] # 0)

ReportedTrusted(i) == i \in DOMAIN report /\ report[i] = StatusTrusted

\* C1: a run that got its credential map and artifact ends in success if and
\* only if every identity of the map was verified with status Trusted; an
\* identity that is absent or has another status makes it end in failure.
C1_SuccessIffAllTrusted ==
    (pc = "done" /\ EngineEntered) =>
        /\ outcome = "success" <=>
              \A i \in DOMAIN apiKeyPerRequiredApprover : ReportedTrusted(i)
        /\ outcome = "success" =>
              \A i \in DOMAIN apiKeyPerRequiredApprover : TrustedOnLedger(ledger, i)
        /\ (\E i \in DOMAIN report : report[i] # StatusTrusted) => outcome # "success"

C1_Witness ==
    /\ pc = "done"
    /\ outcome = "success"
    /\ Cardinality(DOMAIN apiKeyPerRequiredApprover) = 2
    /\ \A i \in DOMAIN apiKeyPerRequiredApprover : ReportedTrusted(i)

\* C2: notarization is invoked at most once, only for the acting approver and
\* with that approver's own key; once the notarization step is over it was
\* invoked exactly once if the approver is in the required set and never if not.
C2_NotarizeOnceForApprover ==
    /\ Len(NotarizeCalls) <= 1
    /\ \A k \in 1..Len(NotarizeCalls) :
          /\ NotarizeCalls[k].who = approver
          /\ approver \in DOMAIN apiKeyPerRequiredApprover
          /\ NotarizeCalls[k].key = apiKeyPerRequiredApprover[approver]
          /\ NotarizeCalls[k].key.signer = SignerIDOf(approver)
    /\ NotarizationPassed =>
          Len(NotarizeCalls) =
              (IF approver \in DOMAIN apiKeyPerRequiredApprover THEN 1 ELSE 0)

C2_Witness ==
    /\ FullPass
    /\ Cardinality(DOMAIN apiKeyPerRequiredApprover) = 2
    /\ approver \in DOMAIN apiKeyPerRequiredApprover
    /\ Len(NotarizeCalls) = 1

\* C3: no identity is verified twice and only identities of the credential
\* map are verified; after a full pass every identity of the map was verified
\* exactly once, in whatever order the map was iterated.
C3_VerifyOncePerIdentity ==
    /\ \A k \in 1..Len(VerifyCalls) :
          VerifyCalls[k].who \in DOMAIN apiKeyPerRequiredApprover
    /\ \A i \in DOMAIN apiKeyPerRequiredApprover : CountCalls("verify", i) <= 1
    /\ FullPass =>
          \A i \in DOMAIN apiKeyPerRequiredApprover : CountCalls("verify", i) = 1

C3_Witness ==
    /\ FullPass
    /\ Len(VerifyCalls) = 2
    /\ VerifyCalls[1].who = <<"bob">>
    /\ VerifyCalls[2].who = <<"alice">>

\* The result the ledger's content fixes for a credential map, whatever the
\* order of the verifications: fatal when a record of the map does not
\* verify, success when every identity is Trusted, a shortfall otherwise.
ExpectedOutcome(l, m) ==
    IF \E i \in DOMAIN m : l[SignerIDOf(i)] # NoRecord /\ ~l[SignerIDOf(i)].verified
    THEN "fatal"
    ELSE IF \A i \in DOMAIN m : TrustedOnLedger(l, i) THEN "success"
    ELSE "shortfall"

NoTransportError == \A k \in 1..Len(VerifyCalls) : VerifyCalls[k].res # "error"

\* C4: with the per-identity verification results fixed by the ledger (and
\* no transport failure), the result of the run is the same for every order in
\* which the identities are verified.
C4_OrderIndependentOutcome ==
    (pc = "done" /\ NotarizationPassed /\ NoTransportError) =>
        outcome = ExpectedOutcome(ledger, apiKeyPerRequiredApprover)

C4_Witness ==
    /\ pc = "done"
    /\ outcome = "fatal"
    /\ NoTransportError
    /\ Len(VerifyCalls) = 2
    /\ VerifyCalls[1].res = "notfound"
    /\ VerifyCalls[2].res = "unverified"

\* The ledger's record of the identity carries a non-zero revocation timestamp.
RevokedOnLedger(l, i) ==
    LET rec == l[SignerIDOf(i)]
    IN rec # NoRecord /\ rec.revoked # <<>> /\ rec.revoked[1] # 0

\* C5: an identity whose verification returned a record with a non-zero
\* revocation timestamp is reported ApikeyRevoked, whatever status the ledger
\* holds, and is not counted as notarized.
C5_RevokedOverridesStatus ==
    \A i \in DOMAIN report :
        RevokedOnLedger(ledger, i) =>
            /\ report[i] = StatusApikeyRevoked
            /\ i \notin Range(notarizedApprovers)

C5_Witness ==
    \E i \in DOMAIN report :
        /\ RevokedOnLedger(ledger, i)
        /\ ledger[SignerIDOf(i)].status = StatusTrusted
        /\ report[i] = StatusApikeyRevoked
        /\ pc = "done"
        /\ outcome = "shortfall"

\* The reconciliation returned without error.
ReconciliationReturned ==
    \/ pc = "reconcile" /\ pending = <<>>
    \/ pc \in {"notarize", "verify"}
    \/ pc = "done" /\ abortedAt \notin {"validate", "reconcile"}

RequiredList == Split(requiredApprovers, ",")

\* How often the required-approvers list names the identity.
Occurrences(i) ==
    Cardinality({k \in 1..Len(RequiredList) : TrimSpace(RequiredList[k]) = i})

HadEntry(i) == atStart.dir[SignerIDOf(i)] # 0

Creates(i) == CountCalls("create", SignerIDOf(i))

Rotates(i) == CountCalls("rotate", SignerIDOf(i))

\* C6 as claimed: after a reconciliation, for every input list, also one
\* naming an identity more than once, an identity without directory entry was
\* created once and never rotated, and an identity with an entry was rotated
\* once and never created.
C6_OneCallPerIdentity ==
    ReconciliationReturned =>
        \A i \in NamedIn(RequiredList) :
            IF HadEntry(i)
            THEN Rotates(i) = 1 /\ Creates(i) = 0
            ELSE Creates(i) = 1 /\ Rotates(i) = 0

\* C6 amended: the calls are made per occurrence of an identity in the list.
\* An identity named once without entry is created once and never rotated,
\* one with an entry is rotated once and never created; an identity named n
\* times is created once and rotated n-1 times when it had no entry, and
\* rotated n times when it had one.
C6_OneCallPerOccurrence ==
    ReconciliationReturned =>
        \A i \in NamedIn(RequiredList) :
            IF HadEntry(i)
            THEN Rotates(i) = Occurrences(i) /\ Creates(i) = 0
            ELSE Creates(i) = 1 /\ Rotates(i) = Occurrences(i) - 1

C6_Witness ==
    /\ ReconciliationReturned
    /\ \E i \in NamedIn(RequiredList) :
          /\ Occurrences(i) = 2
          /\ ~HadEntry(i)
          /\ Creates(i) = 1
          /\ Rotates(i) = 1

\* C8: a verification that returns a record whose proof does not verify is
\* the last call of the run: the run is aborted there, the identity is not
\* reported, no identity still unchecked is verified, and the run ends
\* neither in success nor in the aggregate shortfall.
C8_UnverifiedAborts ==
    \A k \in 1..Len(calls) :
        (calls[k].op = "verify" /\ calls[k].res = "unverified") =>
            /\ k = Len(calls)
            /\ pc = "done"
            /\ outcome = "fatal"
            /\ abortedAt = "verify"
            /\ calls[k].who \notin DOMAIN report
            /\ \A i \in toVerify \ {calls[k].who} : CountCalls("verify", i) = 0

C8_Witness ==
    /\ pc = "done"
    /\ outcome = "fatal"
    /\ Len(calls) > 0
    /\ calls[Len(calls)].op = "verify"
    /\ calls[Len(calls)].res = "unverified"
    /\ Len(VerifyCalls) = 1
    /\ Cardinality(toVerify) = 2

\* A verification of the run ended the run: a failed call or a failed proof.
FatalVerification ==
    \E k \in 1..Len(VerifyCalls) : VerifyCalls[k].res \in {"error", "unverified"}

\* C9: a verification that returns not-found does not abort: the identity is
\* reported absent and not counted, the loop goes on, and unless a later call
\* is fatal every identity is verified and the run ends in the aggregate
\* shortfall.
C9_NotFoundContinues ==
    /\ \A k \in 1..Len(calls) :
          (calls[k].op = "verify" /\ calls[k].res = "notfound") =>
              /\ calls[k].who \in DOMAIN report
              /\ report[calls[k].who] = "absent"
              /\ calls[k].who \notin Range(notarizedApprovers)
              /\ calls[k].who \notin toVerify
              /\ k = Len(calls) => (pc = "verify" \/ (pc = "done" /\ outcome = "shortfall"))
    /\ ( /\ pc = "done"
         /\ \E k \in 1..Len(VerifyCalls) : VerifyCalls[k].res = "notfound"
         /\ ~FatalVerification )
       => /\ outcome = "shortfall"
          /\ \A i \in DOMAIN apiKeyPerRequiredApprover : CountCalls("verify", i) = 1

C9_Witness ==
    /\ pc = "done"
    /\ outcome = "shortfall"
    /\ Len(VerifyCalls) = 2
    /\ VerifyCalls[1].res = "notfound"
    /\ VerifyCalls[2].res = "found"
    /\ report[VerifyCalls[2].who] = StatusTrusted

\* C10: a failed lookup, create or rotate call is the last call of the run:
\* the reconciliation stops there, the run is aborted, the keys collected so
\* far are not used, and there is no notarize and no verify call.
C10_DirectoryErrorAborts ==
    /\ \A k \in 1..Len(calls) :
          (calls[k].op \in DirectoryOps /\ calls[k].res = "error") =>
              /\ k = Len(calls)
              /\ pc = "done"
              /\ outcome = "fatal"
              /\ abortedAt = "reconcile"
              /\ pending # <<>>
              /\ SignerIDOf(TrimSpace(Head(pending))) = calls[k].who
    /\ abortedAt = "reconcile" =>
          /\ \A k \in 1..Len(calls) : calls[k].op \in DirectoryOps
          /\ cnilAPIKey = NoKey
          /\ toVerify = {}
          /\ notarizedApprovers = <<>>
          /\ report = EmptyMap

C10_Witness ==
    /\ abortedAt = "reconcile"
    /\ calls[Len(calls)].res = "error"
    /\ DOMAIN apiKeyPerRequiredApprover # {}
    /\ Len(pending) = 1

\* ======================================================================
\* Several runs on the same commit, one per approval
\* ======================================================================
\* Largest number of runs on the commit.
MaxRuns == 3

\* Required-approvers lists of the workflow: user names, no blanks.
RunLists == UNION {[1..n -> Identities] : n \in 1..MaxEntries}

\* Records the ledger may hold before the first approval.
RunRecordsAtStart ==
    {NoRecord, Record(StatusUntrusted, <<>>, TRUE), Record(StatusTrusted, <<>>, FALSE)}

InitRuns ==
    /\ \E list \in RunLists, a \in Approvers :
          /\ args = [requiredApprovers |-> Join(list, ","), approver |-> a]
          /\ dir = [s \in SignerIDs |-> 0]
          /\ ledger \in [SignerIDs -> RunRecordsAtStart]
          /\ \A i \in Identities \ NamedIn(list) : ledger[SignerIDOf(i)] = NoRecord
    /\ RunStart
    /\ runs = 1
    /\ approved = {}
    /\ other = NoOtherRun

\* The identities that were the acting approver of a run that made all its
\* calls without error, this run included.
ApprovedNow ==
    IF FullPass /\ approver \in DOMAIN apiKeyPerRequiredApprover
    THEN approved \cup {approver}
    ELSE approved

\* The workflow runs the action again on the next approval: main() starts
\* anew with the same required approvers and the approver of that review;
\* the directory and the ledger are as the earlier runs left them.
NextRun ==
    /\ pc = "done"
    /\ runs < MaxRuns
    /\ \E a \in Approvers : args' = [args EXCEPT !.approver = a]
    /\ runs' = runs + 1
    /\ approved' = ApprovedNow
    /\ apiKeyFound' = Nil
    /\ UNCHANGED other
    /\ pc' = "validate"
    /\ requiredApprovers' = <<>>
    /\ approver' = <<>>
    /\ pending' = <<>>
    /\ apiKeyPerRequiredApprover' = EmptyMap
    /\ cnilAPIKey' = NoKey
    /\ toVerify' = {}
    /\ notarizedApprovers' = <<>>
    /\ report' = EmptyMap
    /\ outcome' = "none"
    /\ abortedAt' = "none"
    /\ calls' = <<>>
    /\ atStart' = [dir |-> dir, ledger |-> ledger]
    /\ artifact' = Nil
    /\ UNCHANGED <<dir, ledger>>

\* Between two runs the API key that signed a record is revoked: the ledger
\* returns the record with a revocation timestamp from then on.
Revoke ==
    /\ pc = "done"
    /\ \E s \in SignerIDs :
          /\ ledger[s] # NoRecord
          /\ ledger[s].revoked = <<>>
          /\ ledger' = [ledger EXCEPT ![s].revoked = <<1>>]
    /\ UNCHANGED <<args, pc, runVars, outcome, abortedAt, calls, dir, atStart, earlier,
                   artifact>>

\* Between two runs a signer marks its record of the commit as untrusted.
Untrust ==
    /\ pc = "done"
    /\ \E s \in SignerIDs :
          /\ ledger[s] # NoRecord
          /\ ledger[s].status = StatusTrusted
          /\ ledger' = [ledger EXCEPT ![s].status = StatusUntrusted]
    /\ UNCHANGED <<args, pc, runVars, outcome, abortedAt, calls, dir, atStart, earlier,
                   artifact>>

NextRuns ==
    \/ Next
    \/ NextRun
    \/ Revoke
    \/ Untrust

SpecRuns == InitRuns /\ [][NextRuns]_vars

\* The signer IDs the workflow lists, as identities.
Listed == NamedIn(Split(TrimSpace(args.requiredApprovers), ","))

\* Every listed signer has been the acting approver of a run without error.
AllApproved == Listed \subseteq ApprovedNow

\* No record of a listed signer is revoked or untrusted.
NoneRevokedOrUntrusted ==
    \A i \in Listed :
        /\ ~RevokedOnLedger(ledger, i)
        /\ ledger[SignerIDOf(i)] # NoRecord =>
              ledger[SignerIDOf(i)].status # StatusUntrusted

\* C7 as claimed: every approval creates a notarization for the approving
\* user, and once every listed signer has approved in a run without error,
\* that run and every later run end in success, as long as no record is
\* revoked or untrusted.
C7_EachApprovalNotarizes ==
    /\ FullPass =>
          /\ Len(NotarizeCalls) = 1
          /\ NotarizeCalls[1].who = approver
    /\ (pc = "done" /\ AllApproved /\ NoneRevokedOrUntrusted) => outcome = "success"

\* C7 amended: an approval by a listed signer creates a notarization for that
\* signer, an approval by anyone else creates none; once every listed signer
\* has approved in a run without error, that run and every later run that
\* makes all its calls without error end in success, as long as no record is
\* revoked or untrusted.
C7_ListedApprovalNotarizes ==
    /\ NotarizationPassed =>
          IF approver \in Listed
          THEN /\ Len(NotarizeCalls) = 1
               /\ NotarizeCalls[1].who = approver
               /\ NotarizeCalls[1].res = "ok"
          ELSE Len(NotarizeCalls) = 0
    /\ pc = "verify" =>
          IF approver \in Listed
          THEN ledger[SignerIDOf(approver)] = SignedRecord
          ELSE ledger = atStart.ledger
    /\ (FullPass /\ AllApproved /\ NoneRevokedOrUntrusted) => outcome = "success"

C7_Witness ==
    /\ runs = 3
    /\ pc = "done"
    /\ outcome = "success"
    /\ Listed = {<<"alice">>, <<"bob">>}
    /\ approved = Listed
    /\ approver = <<"carol">>
    /\ atStart.ledger[SignerIDOf(<<"alice">>)] = SignedRecord

\* ------------------------------------------------ properties (scenarios)
\* Every external call of the run so far was answered without error and the
\* artifact was extracted.
AllCallsSucceeded ==
    /\ \A k \in 1..Len(calls) : calls[k].res \notin {"error", "unverified"}
    /\ abortedAt # "artifact"

\* The identities the run requires: the non-empty trimmed entries of the list.
RequiredSet == NamedIn(RequiredList)

NoPriorRecord == \A i \in RequiredSet : atStart.ledger[SignerIDOf(i)] = NoRecord

\* Position of the notarize call in the call log (0: none).
NotarizeAt ==
    IF \E k \in 1..Len(calls) : calls[k].op = "notarize"
    THEN CHOOSE k \in 1..Len(calls) : calls[k].op = "notarize"
    ELSE 0

\* C13: in a finished run over two or more required identities without prior
\* ledger record, with the acting approver among them and every external call
\* successful: notarize was called once, for the approver, before every verify
\* call; the approver verified as Trusted, every other identity as not found;
\* the run ends in the shortfall failure with the report {approver: Trusted,
\* every other identity: absent}.
C13_FirstApprovalOfSeveral ==
    ( /\ pc = "done"
      /\ Cardinality(RequiredSet) >= 2
      /\ NoPriorRecord
      /\ approver \in RequiredSet
      /\ AllCallsSucceeded )
    => /\ outcome = "shortfall"
       /\ Len(NotarizeCalls) = 1
       /\ NotarizeCalls[1].who = approver
       /\ NotarizeCalls[1].res = "ok"
       /\ \A k \in 1..Len(calls) : calls[k].op = "verify" => NotarizeAt < k
       /\ DOMAIN report = RequiredSet
       /\ \A i \in RequiredSet :
             /\ CountCalls("verify", i) = 1
             /\ report[i] = (IF i = approver THEN StatusTrusted ELSE "absent")
       /\ \A k \in 1..Len(VerifyCalls) :
             VerifyCalls[k].res =
                 (IF VerifyCalls[k].who = approver THEN "found" ELSE "notfound")
       /\ notarizedApprovers = <<approver>>

C13_Witness ==
    /\ pc = "done"
    /\ outcome = "shortfall"
    /\ NoPriorRecord
    /\ AllCallsSucceeded
    /\ approver = <<"alice">>
    /\ Len(NotarizeCalls) = 1
    /\ DOMAIN report = {<<"alice">>, <<"bob">>}
    /\ report[<<"alice">>] = StatusTrusted
    /\ report[<<"bob">>] = "absent"

\* C14: a run whose acting approver is not required makes no notarize call
\* and leaves the ledger as it was; when it completes the pass its outcome is
\* the one the records at the start fix; when every required identity had a
\* Trusted record at the start and every call succeeds, every verify call
\* returns Trusted and the run ends in success.
C14_NonRequiredApproverReadsOnly ==
    (pc # "validate" /\ abortedAt # "validate" /\ approver \notin RequiredSet) =>
        /\ Len(NotarizeCalls) = 0
        /\ ledger = atStart.ledger
        /\ FullPass => outcome = ExpectedOutcome(atStart.ledger, apiKeyPerRequiredApprover)
        /\ ( /\ pc = "done"
             /\ AllCallsSucceeded
             /\ \A i \in RequiredSet : TrustedOnLedger(atStart.ledger, i) )
           => /\ outcome = "success"
              /\ DOMAIN report = RequiredSet
              /\ \A i \in RequiredSet : report[i] = StatusTrusted
              /\ \A k \in 1..Len(VerifyCalls) : VerifyCalls[k].res = "found"
              /\ Len(VerifyCalls) = Cardinality(RequiredSet)

C14_Witness ==
    /\ pc = "done"
    /\ outcome = "success"
    /\ approver = <<"carol">>
    /\ RequiredSet = {<<"alice">>, <<"bob">>}
    /\ \A i \in RequiredSet : TrustedOnLedger(atStart.ledger, i)
    /\ Len(NotarizeCalls) = 0
    /\ Len(VerifyCalls) = 2
    /\ ledger = atStart.ledger

\* What a verification reports for a ledger record that verifies.
StatusOrAbsent(rec) ==
    IF rec = NoRecord THEN "absent"
    ELSE IF rec.revoked # <<>> /\ rec.revoked[1] # 0 THEN StatusApikeyRevoked
    ELSE rec.status

\* The records of the map's identities that a verification can report: all
\* but those whose proof does not verify.
Reportable(l, m) ==
    {i \in DOMAIN m : l[SignerIDOf(i)] = NoRecord \/ l[SignerIDOf(i)].verified}

\* The report the ledger's content fixes for the identities `ids`.
ExpectedReport(l, ids) == [i \in ids |-> StatusOrAbsent(l[SignerIDOf(i)])]

\* C15 as claimed: for every ledger state the run ends, whatever the order of
\* the verifications, with the same result and the same report contents: the
\* status or the absence of every identity the ledger can report.
C15_OrderIndependentReport ==
    (pc = "done" /\ NotarizationPassed /\ NoTransportError) =>
        /\ outcome = ExpectedOutcome(ledger, apiKeyPerRequiredApprover)
        /\ report = ExpectedReport(ledger, Reportable(ledger, apiKeyPerRequiredApprover))

\* C15 amended: for every ledger state the result of the run is the same for
\* every order of the verifications; a run that completes the pass also ends
\* with the same report contents, one entry per identity of the map; a run
\* that aborts at a record whose proof fails has reported only the identities
\* verified before it, each with the status the ledger fixes.
C15_OrderIndependentFullPass ==
    (pc = "done" /\ NotarizationPassed /\ NoTransportError) =>
        /\ outcome = ExpectedOutcome(ledger, apiKeyPerRequiredApprover)
        /\ FullPass =>
              report = ExpectedReport(ledger, DOMAIN apiKeyPerRequiredApprover)
        /\ outcome = "fatal" =>
              /\ DOMAIN report \subseteq Reportable(ledger, apiKeyPerRequiredApprover)
              /\ report = ExpectedReport(ledger, DOMAIN report)

C15_Witness ==
    /\ FullPass
    /\ NoTransportError
    /\ Len(VerifyCalls) = 2
    /\ VerifyCalls[1].who = <<"bob">>
    /\ VerifyCalls[2].who = <<"alice">>
    /\ report = ExpectedReport(ledger, {<<"alice">>, <<"bob">>})
    /\ report[<<"alice">>] = StatusUntrusted
    /\ report[<<"bob">>] = "absent"

\* The ledger as the notarization step of the run left it.
LedgerAfterNotarize ==
    IF approver \in DOMAIN apiKeyPerRequiredApprover
    THEN [atStart.ledger EXCEPT ![SignerIDOf(approver)] = SignedRecord]
    ELSE atStart.ledger

\* C16: a verification never changes the ledger, and its result is fixed by
\* the ledger's record of the identity alone: whenever an identity is verified
\* again with the record unchanged (in a later run, with a rotated key, after
\* other verifications) the same status, or the same absence, is reported.
C16_VerificationIdempotent ==
    /\ pc = "verify" => ledger = LedgerAfterNotarize
    /\ (NotarizationPassed /\ ledger = LedgerAfterNotarize) =>
          \A i \in DOMAIN report : report[i] = StatusOrAbsent(ledger[SignerIDOf(i)])

C16_Witness ==
    /\ runs = 2
    /\ pc = "verify"
    /\ approver = <<"carol">>
    /\ <<"alice">> \in approved
    /\ atStart.ledger[SignerIDOf(<<"alice">>)] = SignedRecord
    /\ apiKeyPerRequiredApprover[<<"alice">>].secret = 2
    /\ <<"alice">> \in DOMAIN report
    /\ report[<<"alice">>] = StatusTrusted
    /\ Len(VerifyCalls) = 2

\* The positions of the call log at which a key was issued for the signer:
\* the create and rotate calls that succeeded.
IssuedAt(signerID) ==
    {k \in 1..Len(calls) :
        /\ calls[k].op \in {"create", "rotate"}
        /\ calls[k].who = signerID
        /\ calls[k].res = "ok"}

\* The keys the lookups of the run returned.
LookedUpKeys == {calls[k].key : k \in {j \in 1..Len(calls) : calls[j].op = "lookup"}}

Max(S) == CHOOSE x \in S : \A y \in S : y <= x

\* C17: a key is stored for an identity only after a create or rotate call
\* for its signer ID succeeded, and the stored key is the one that call
\* returned (the latest, when the identity is listed more than once): it is
\* newer than the key the directory held at the start and is none of the keys
\* the lookups before that call returned, and none of the keys any lookup
\* returned once the reconciliation is over; no notarize or verify call uses
\* a key a lookup returned.
C17_OnlyIssuedKeysAreUsed ==
    /\ \A i \in DOMAIN apiKeyPerRequiredApprover :
          /\ IssuedAt(SignerIDOf(i)) # {}
          /\ apiKeyPerRequiredApprover[i] = calls[Max(IssuedAt(SignerIDOf(i)))].key
          /\ apiKeyPerRequiredApprover[i].signer = SignerIDOf(i)
          /\ apiKeyPerRequiredApprover[i].secret > atStart.dir[SignerIDOf(i)]
          /\ \A j \in 1..Max(IssuedAt(SignerIDOf(i))) :
                calls[j].op = "lookup" => calls[j].key # apiKeyPerRequiredApprover[i]
          /\ ReconciliationReturned => apiKeyPerRequiredApprover[i] \notin LookedUpKeys
          /\ HadEntry(i) => calls[Max(IssuedAt(SignerIDOf(i)))].op = "rotate"
    /\ \A k \in 1..Len(calls) :
          calls[k].op \in {"notarize", "verify"} =>
              /\ calls[k].key \notin LookedUpKeys
              /\ calls[k].key = apiKeyPerRequiredApprover[calls[k].who]

C17_Witness ==
    /\ FullPass
    /\ approver = <<"alice">>
    /\ HadEntry(<<"alice">>)
    /\ Key(SignerIDOf(<<"alice">>), 1) \in LookedUpKeys
    /\ apiKeyPerRequiredApprover[<<"alice">>] = Key(SignerIDOf(<<"alice">>), 2)
    /\ Len(NotarizeCalls) = 1
    /\ NotarizeCalls[1].key.secret = 2
    /\ CountCalls("verify", <<"alice">>) = 1

\* C18: when the reconciliation has returned without error, every required
\* identity has an entry in the directory and a key in the map, and the key
\* in the map is the live secret of its signer ID: no later rotation of the
\* same reconciliation has invalidated it, also when the list names the
\* identity more than once; it stays live for the rest of the run.
C18_MappedKeysAreLive ==
    ReconciliationReturned =>
        /\ DOMAIN apiKeyPerRequiredApprover = RequiredSet
        /\ \A i \in RequiredSet :
              /\ dir[SignerIDOf(i)] # 0
              /\ apiKeyPerRequiredApprover[i].signer = SignerIDOf(i)
              /\ apiKeyPerRequiredApprover[i].secret = dir[SignerIDOf(i)]
              /\ IsLive(dir, apiKeyPerRequiredApprover[i])
              /\ dir[SignerIDOf(i)] = atStart.dir[SignerIDOf(i)] + Occurrences(i)

C18_Witness ==
    /\ ReconciliationReturned
    /\ Occurrences(<<"alice">>) = 2
    /\ HadEntry(<<"alice">>)
    /\ Rotates(<<"alice">>) = 2
    /\ dir[SignerIDOf(<<"alice">>)] = 3
    /\ apiKeyPerRequiredApprover[<<"alice">>] = Key(SignerIDOf(<<"alice">>), 3)

\* The directory calls of the run for one signer ID, in order.
DirectoryCallsFor(signerID) ==
    SelectSeq(calls, LAMBDA c : c.op \in DirectoryOps /\ c.who = signerID)

\* How often the identity is in the list of notarized approvers.
TimesNotarized(i) ==
    Cardinality({k \in 1..Len(notarizedApprovers) : notarizedApprovers[k] = i})

\* C19: when the reconciliation has returned, an identity the list names n
\* times was reconciled n times, each time by a lookup followed by its own
\* create or rotate; the map has one entry for it, holding the key the last
\* of these calls returned; the duplicate does not abort the run, and the
\* identity is verified once and counts once in the aggregate.
C19_DuplicatesCollapseLastWins ==
    /\ ReconciliationReturned =>
          \A i \in RequiredSet :
              LET dc == DirectoryCallsFor(SignerIDOf(i))
              IN /\ Len(dc) = 2 * Occurrences(i)
                 /\ \A k \in 1..Occurrences(i) :
                       /\ dc[2 * k - 1].op = "lookup"
                       /\ dc[2 * k].op \in {"create", "rotate"}
                       /\ dc[2 * k].res = "ok"
                 /\ i \in DOMAIN apiKeyPerRequiredApprover
                 /\ apiKeyPerRequiredApprover[i] = dc[Len(dc)].key
    /\ Cardinality(DOMAIN apiKeyPerRequiredApprover) <= Cardinality(RequiredSet)
    /\ \A i \in RequiredSet : CountCalls("verify", i) <= 1 /\ TimesNotarized(i) <= 1
    /\ (FullPass /\ \A i \in RequiredSet : TrustedOnLedger(ledger, i)) =>
          /\ outcome = "success"
          /\ Len(notarizedApprovers) = Cardinality(RequiredSet)
    /\ (pc = "done" /\ AllCallsSucceeded /\ RequiredSet # {}) => FullPass

C19_Witness ==
    /\ FullPass
    /\ outcome = "success"
    /\ Occurrences(<<"alice">>) = 2
    /\ ~HadEntry(<<"alice">>)
    /\ Len(DirectoryCallsFor(SignerIDOf(<<"alice">>))) = 4
    /\ apiKeyPerRequiredApprover = (<<"alice">> :> Key(SignerIDOf(<<"alice">>), 2))
    /\ notarizedApprovers = <<(<<"alice">>)>>
    /\ Len(VerifyCalls) = 1

\* C20: every lookup and every create carries the identity with the identity
\* suffix, of an identity of the list; the keys are stored under the trimmed
\* identities without suffix, so that when the reconciliation has returned
\* the keys of the map are exactly the non-empty trimmed entries of the list
\* and an acting approver given by its bare user name finds its entry and is
\* notarized.
C20_SuffixOnlyInDirectory ==
    /\ \A k \in 1..Len(calls) :
          calls[k].op \in {"lookup", "create"} =>
              /\ Len(calls[k].who) > Len(identitySuffix)
              /\ SubSeq(calls[k].who, Len(calls[k].who) - Len(identitySuffix) + 1,
                        Len(calls[k].who)) = identitySuffix
              /\ \E i \in RequiredSet : calls[k].who = i \o identitySuffix
    /\ DOMAIN apiKeyPerRequiredApprover \subseteq RequiredSet
    /\ \A i \in DOMAIN apiKeyPerRequiredApprover :
          /\ i = TrimSpace(i)
          /\ i # <<>>
          /\ apiKeyPerRequiredApprover[i].signer = i \o identitySuffix
    /\ ReconciliationReturned => DOMAIN apiKeyPerRequiredApprover = RequiredSet
    /\ (NotarizationPassed /\ approver \in RequiredSet) =>
          /\ Len(NotarizeCalls) = 1
          /\ NotarizeCalls[1].who = approver
          /\ NotarizeCalls[1].key.signer = approver \o identitySuffix

C20_Witness ==
    /\ NotarizationPassed
    /\ args.requiredApprovers = <<" ", "alice", " ", ",", "bob">>
    /\ approver = <<"alice">>
    /\ DOMAIN apiKeyPerRequiredApprover = {<<"alice">>, <<"bob">>}
    /\ Len(NotarizeCalls) = 1
    /\ NotarizeCalls[1].key.signer = <<"alice", "@github">>
    /\ CountCalls("lookup", <<"alice", "@github">>) = 1

\* ------------------------------------------- properties (error handling)
\* A single run with the scheduling of a sequential program: main goes on
\* until it exits.
SpecLive == Spec /\ WF_vars(Next)

\* The entries of the list the reconciliation loop has gone through without
\* error: all but the pending ones.
EntriesDone == Len(RequiredList) - Len(pending)

NonEmptyDone ==
    Cardinality({k \in 1..EntriesDone : TrimSpace(RequiredList[k]) # <<>>})

LookupCalls == SelectSeq(calls, LAMBDA c : c.op = "lookup")

\* C21: an entry that is empty after trimming causes no directory call and no
\* map entry, and does not stop the loop: there is one lookup per non-empty
\* entry gone through (and one for the entry whose lookup is answered and
\* waits for its create or rotate, or that a failure stopped at), and when
\* the reconciliation has returned every non-empty entry of the list, before
\* or after an empty one, has its key in the map.
C21_EmptyEntrySkipped ==
    /\ <<>> \notin DOMAIN apiKeyPerRequiredApprover
    /\ \A k \in 1..Len(calls) : calls[k].who \notin {<<>>, SignerIDOf(<<>>)}
    /\ (pc # "validate" /\ abortedAt # "validate") =>
          Len(LookupCalls) = NonEmptyDone
                               + (IF abortedAt = "reconcile" \/ apiKeyFound # Nil
                                  THEN 1 ELSE 0)
    /\ ReconciliationReturned =>
          /\ DOMAIN apiKeyPerRequiredApprover = RequiredSet
          /\ \A i \in RequiredSet : CountCalls("lookup", SignerIDOf(i)) = Occurrences(i)

C21_Witness ==
    /\ RequiredList = <<<<>>, <<"alice">>>>
    /\ ReconciliationReturned
    /\ pc = "done"
    /\ outcome = "success"
    /\ Len(LookupCalls) = 1
    /\ DOMAIN apiKeyPerRequiredApprover = {<<"alice">>}

\* C22: a create call directly follows a lookup of the same signer ID that
\* was answered with an empty list, a rotate call directly follows a lookup
\* that was answered with an entry and is made on the id of that entry; a
\* lookup that failed is the last call of the run and the run is aborted in
\* the reconciliation; an answered lookup is followed by its create or
\* rotate, or is the last call so far of a run that holds its answer and has
\* that request to make next.
C22_CreateOrRotateFollowsLookup ==
    /\ \A k \in 1..Len(calls) :
           /\ calls[k].op = "create" =>
                 /\ k > 1
                 /\ calls[k - 1].op = "lookup"
                 /\ calls[k - 1].res = "notfound"
                 /\ calls[k - 1].who = calls[k].who
                 /\ calls[k - 1].key = NoKey
           /\ calls[k].op = "rotate" =>
                 /\ k > 1
                 /\ calls[k - 1].op = "lookup"
                 /\ calls[k - 1].res = "found"
                 /\ calls[k - 1].key # NoKey
                 /\ calls[k].who = calls[k - 1].key.signer
           /\ calls[k].op = "lookup" =>
                 IF calls[k].res = "error"
                 THEN k = Len(calls) /\ pc = "done" /\ abortedAt = "reconcile"
                 ELSE IF k = Len(calls)
                 THEN /\ pc = "reconcile"
                      /\ apiKeyFound # Nil
                      /\ LookupAnswer(apiKeyFound) = calls[k].res
                      /\ KeyOf(apiKeyFound) = calls[k].key
                 ELSE calls[k + 1].op =
                          (IF calls[k].res = "found" THEN "rotate" ELSE "create")
    /\ apiKeyFound # Nil =>
          /\ Len(calls) > 0
          /\ calls[Len(calls)].op = "lookup"
          /\ calls[Len(calls)].res \in {"found", "notfound"}

C22_Witness ==
    /\ ReconciliationReturned
    /\ Len(calls) >= 4
    /\ calls[1].op = "lookup" /\ calls[1].res = "found"
    /\ calls[2].op = "rotate" /\ calls[2].res = "ok"
    /\ calls[3].op = "lookup" /\ calls[3].res = "notfound"
    /\ calls[4].op = "create" /\ calls[4].res = "ok"
    /\ calls[1].who # calls[3].who

\* The step of main that makes the calls of an operation.
StepOf(op) == IF op \in DirectoryOps THEN "reconcile" ELSE op

\* C23: a call that failed is the last call of the run: it is not repeated,
\* no other call follows, and the run is aborted at the step that made it;
\* conversely a run aborted in the reconciliation, the notarization or the
\* verification ends with the failed call; after a failed notarization there
\* is no verify call.
C23_FailFastNoRetry ==
    /\ \A k \in 1..Len(calls) :
          calls[k].res \in {"error", "unverified"} =>
              /\ k = Len(calls)
              /\ pc = "done"
              /\ outcome = "fatal"
              /\ abortedAt = StepOf(calls[k].op)
    /\ abortedAt \in {"reconcile", "notarize", "verify"} =>
          /\ Len(calls) > 0
          /\ calls[Len(calls)].res \in {"error", "unverified"}
          /\ StepOf(calls[Len(calls)].op) = abortedAt
    /\ abortedAt = "notarize" =>
          /\ Len(VerifyCalls) = 0
          /\ toVerify = {}
          /\ report = EmptyMap

C23_Witness ==
    /\ pc = "done"
    /\ abortedAt = "notarize"
    /\ Cardinality(DOMAIN apiKeyPerRequiredApprover) = 2
    /\ calls[Len(calls)].op = "notarize"
    /\ calls[Len(calls)].res = "error"
    /\ Len(VerifyCalls) = 0

\* C24: the run ends with the aggregate shortfall only after a full pass
\* without error: the reconciliation returned its map, the notarization, when
\* the acting approver is in the map, was made and succeeded, one verify call
\* was made for every identity of the map, and no call of the run returned an
\* error.
C24_ShortfallOnlyAfterFullPass ==
    outcome = "shortfall" =>
        /\ pc = "done"
        /\ abortedAt = "none"
        /\ ReconciliationReturned
        /\ DOMAIN apiKeyPerRequiredApprover = RequiredSet
        /\ artifact = GitArtifact
        /\ \A k \in 1..Len(calls) : calls[k].res \notin {"error", "unverified"}
        /\ approver \in DOMAIN apiKeyPerRequiredApprover =>
              /\ Len(NotarizeCalls) = 1
              /\ NotarizeCalls[1].who = approver
              /\ NotarizeCalls[1].res = "ok"
        /\ approver \notin DOMAIN apiKeyPerRequiredApprover => Len(NotarizeCalls) = 0
        /\ \A i \in DOMAIN apiKeyPerRequiredApprover :
              /\ CountCalls("verify", i) = 1
              /\ i \in DOMAIN report
        /\ Len(VerifyCalls) = Cardinality(DOMAIN apiKeyPerRequiredApprover)
        /\ \A k \in 1..Len(VerifyCalls) : VerifyCalls[k].res \in {"found", "notfound"}
        /\ toVerify = {}

C24_Witness ==
    /\ outcome = "shortfall"
    /\ Cardinality(DOMAIN apiKeyPerRequiredApprover) = 2
    /\ approver \in DOMAIN apiKeyPerRequiredApprover
    /\ Len(notarizedApprovers) = 1
    /\ Len(VerifyCalls) = 2

\* The records the termination of a run is checked on: none, a signed one
\* and one whose proof does not verify. The course of a run depends on a
\* record only through the answer of the verify call: not found, found
\* (Trusted or not) or unverified.
TerminationRecords == {NoRecord, SignedRecord, Record(StatusTrusted, <<>>, FALSE)}

InitTermination ==
    /\ \E list \in EntryLists, a \in Approvers :
          /\ args = [requiredApprovers |-> Join(list, ","), approver |-> a]
          /\ dir \in [SignerIDs -> {0, 1}]
          /\ ledger \in [SignerIDs -> TerminationRecords]
          /\ \A i \in Identities \ NamedIn(list) :
                dir[SignerIDOf(i)] = 0 /\ ledger[SignerIDOf(i)] = NoRecord
    /\ RunStart
    /\ runs = 1
    /\ approved = {}
    /\ other = NoOtherRun

\* main is sequential and every call it makes returns: a step that can be
\* taken is taken.
SpecTermination == InitTermination /\ [][Next]_vars /\ WF_vars(Next)

\* How far the run is from its end: the position in main first, then the
\* requests the reconciliation has still to make at most (two per entry it
\* has not read, one for an entry whose lookup was answered) and the keys the
\* loop has not visited.
PcRank ==
    CASE pc = "validate"  -> 4
      [] pc = "reconcile" -> 3
      [] pc = "notarize"  -> 2
      [] pc = "verify"    -> 1
      [] pc = "done"      -> 0

Distance ==
    PcRank * 100 + 2 * Len(pending) - (IF apiKeyFound # Nil THEN 1 ELSE 0)
                 + Cardinality(toVerify)

\* The whole loop was gone through: every key of the map was verified once.
PassComplete ==
    /\ abortedAt = "none"
    /\ toVerify = {}
    /\ DOMAIN report = DOMAIN apiKeyPerRequiredApprover
    /\ \A i \in DOMAIN apiKeyPerRequiredApprover : CountCalls("verify", i) = 1

\* The run was aborted at its first fatal error: no call failed before, and
\* when the abort is one of a call, that call is the last.
AbortedAtFirstError ==
    /\ abortedAt \in {"validate", "reconcile", "artifact", "notarize", "verify"}
    /\ \A k \in 1..(Len(calls) - 1) : calls[k].res \notin {"error", "unverified"}
    /\ abortedAt \in {"validate", "artifact"} =>
          \A k \in 1..Len(calls) : calls[k].res \notin {"error", "unverified"}
    /\ abortedAt \in {"reconcile", "notarize", "verify"} =>
          /\ Len(calls) > 0
          /\ calls[Len(calls)].res \in {"error", "unverified"}

TerminalState ==
    \/ outcome = "success" /\ PassComplete
    \/ outcome = "shortfall" /\ PassComplete
    \/ outcome = "fatal" /\ AbortedAtFirstError

\* C25: when every step of the run returns, the run terminates: each step
\* brings it closer to its end and the end is reached; the end is a success
\* after a full pass, a shortfall after a full pass, or a fatal abort at the
\* first error, and before the end the run has no outcome.
C25_RunTerminates ==
    /\ <>(pc = "done")
    /\ [][Distance' < Distance]_vars
    /\ [](IF pc = "done" THEN TerminalState ELSE outcome = "none" /\ abortedAt = "none")

C25_Witness ==
    /\ pc = "done"
    /\ outcome = "fatal"
    /\ abortedAt = "verify"
    /\ Cardinality(DOMAIN report) = 1
    /\ toVerify # {}
    /\ Len(VerifyCalls) = 2

\* C26: the calls of a run are ordered: no directory call follows a notarize
\* or verify call, no notarize call follows a verify call, and there is at
\* most one notarize call; the verify call of the acting approver, made after
\* the notarization of the same run, finds the record that notarization
\* signed.
C26_CallsOrdered ==
    /\ \A j, k \in 1..Len(calls) :
          j < k =>
              /\ calls[j].op \in {"notarize", "verify"} => calls[k].op \notin DirectoryOps
              /\ calls[j].op = "verify" => calls[k].op = "verify"
    /\ Len(NotarizeCalls) <= 1
    /\ Len(calls) > 0 /\ calls[Len(calls)].op \in {"notarize", "verify"} =>
          /\ ReconciliationReturned
          /\ \A i \in RequiredSet : CountCalls("lookup", SignerIDOf(i)) = Occurrences(i)
    /\ \A k \in 1..Len(calls) :
          calls[k].op = "verify" /\ calls[k].who \in DOMAIN apiKeyPerRequiredApprover
                                 /\ calls[k].who = approver =>
              /\ Len(NotarizeCalls) = 1
              /\ NotarizeCalls[1].res = "ok"
              /\ ledger[SignerIDOf(approver)] = SignedRecord
              /\ calls[k].res \in {"found", "error"}
              /\ calls[k].res = "found" => ReportedTrusted(approver)

C26_Witness ==
    /\ Len(calls) = 6
    /\ calls[1].op = "lookup"
    /\ calls[3].op = "lookup"
    /\ calls[5].op = "notarize"
    /\ calls[6].op = "verify"
    /\ calls[6].who = approver
    /\ calls[6].res = "found"
    /\ atStart.ledger[SignerIDOf(approver)] = NoRecord

LedgerCalls == SelectSeq(calls, LAMBDA c : c.op \in {"notarize", "verify"})

\* C27: every verify call is made with the key the map holds for the
\* identity it verifies, a key of that identity's signer, whatever key the
\* call before left in the options; the notarize call is made with the key of
\* the acting approver; every ledger call is made on the hash of the artifact
\* extracted from the repository, which the run holds unchanged from its
\* extraction on.
C27_OwnKeyAndSameArtifact ==
    /\ \A k \in 1..Len(calls) :
          calls[k].op = "verify" =>
              /\ calls[k].who \in DOMAIN apiKeyPerRequiredApprover
              /\ calls[k].key = apiKeyPerRequiredApprover[calls[k].who]
              /\ calls[k].key.signer = SignerIDOf(calls[k].who)
    /\ \A k \in 1..Len(calls) :
          calls[k].op = "notarize" =>
              /\ calls[k].who = approver
              /\ calls[k].key = apiKeyPerRequiredApprover[approver]
    /\ \A k \in 1..Len(LedgerCalls) : LedgerCalls[k].hash = GitArtifact.Hash
    /\ Len(LedgerCalls) > 0 => cnilAPIKey = LedgerCalls[Len(LedgerCalls)].key
    /\ Len(LedgerCalls) = 0 => cnilAPIKey = NoKey
    /\ artifact = IF EngineEntered THEN GitArtifact ELSE Nil

C27_Witness ==
    /\ Len(LedgerCalls) = 3
    /\ LedgerCalls[1].op = "notarize"
    /\ LedgerCalls[2].who # approver
    /\ LedgerCalls[3].who = approver
    /\ LedgerCalls[2].key # LedgerCalls[1].key
    /\ LedgerCalls[3].key # LedgerCalls[2].key
    /\ LedgerCalls[3].hash = LedgerCalls[1].hash

\* C29: when the reconciliation returns an empty map, which it does exactly
\* when every entry of the (non-empty) list is empty after trimming, the run
\* makes no directory, notarize or verify call, leaves directory and ledger
\* as they were, and, the artifact being extracted, ends in success with
\* nothing verified.
C29_EmptyMapSucceeds ==
    ReconciliationReturned =>
        /\ (DOMAIN apiKeyPerRequiredApprover = {}) <=> (RequiredSet = {})
        /\ DOMAIN apiKeyPerRequiredApprover = {} =>
              /\ Len(requiredApprovers) > 0
              /\ calls = <<>>
              /\ dir = atStart.dir
              /\ ledger = atStart.ledger
              /\ toVerify = {}
              /\ pc = "done" =>
                    \/ abortedAt = "artifact" /\ outcome = "fatal"
                    \/ /\ abortedAt = "none"
                       /\ outcome = "success"
                       /\ notarizedApprovers = <<>>
                       /\ report = EmptyMap

C29_Witness ==
    /\ args.requiredApprovers = <<",">>
    /\ pc = "done"
    /\ outcome = "success"
    /\ apiKeyPerRequiredApprover = EmptyMap
    /\ calls = <<>>

\* The identities the verification loop has gone through without error.
Visited ==
    IF NotarizationPassed THEN DOMAIN apiKeyPerRequiredApprover \ toVerify ELSE {}

\* C30: at every point of the run the list of notarized approvers has no
\* duplicates and holds exactly the identities the loop has verified with
\* the status Trusted: those reported Trusted, which are the visited ones
\* with a verifiable, unrevoked Trusted record; so the list is never longer
\* than the map has keys, and after a full pass it is as long exactly when
\* every identity of the map is reported Trusted.
C30_NotarizedListIsTrustedSet ==
    /\ Cardinality(Range(notarizedApprovers)) = Len(notarizedApprovers)
    /\ Range(notarizedApprovers) = {i \in DOMAIN report : report[i] = StatusTrusted}
    /\ DOMAIN report = Visited
    /\ Range(notarizedApprovers) = {i \in Visited : TrustedOnLedger(ledger, i)}
    /\ Len(notarizedApprovers) <= Cardinality(DOMAIN apiKeyPerRequiredApprover)
    /\ Len(notarizedApprovers) <= Cardinality(Visited)
    /\ FullPass =>
          /\ Visited = DOMAIN apiKeyPerRequiredApprover
          /\ (Len(notarizedApprovers) = Cardinality(DOMAIN apiKeyPerRequiredApprover))
                <=> (\A i \in DOMAIN apiKeyPerRequiredApprover : ReportedTrusted(i))

C30_Witness ==
    /\ pc = "verify"
    /\ Cardinality(toVerify) = 1
    /\ Cardinality(DOMAIN report) = 1
    /\ Len(notarizedApprovers) = 1
    /\ \E i \in toVerify : ledger[SignerIDOf(i)] = Record(StatusUntrusted, <<>>, TRUE)

\* --------------------------------- properties (partial reconciliation)
\* The identity at which the reconciliation failed, those of the entries
\* before it and those that only entries after it name.
FailingIdentity == TrimSpace(Head(pending))

DoneCount(i) ==
    Cardinality({k \in 1..EntriesDone : TrimSpace(RequiredList[k]) = i})

IdentitiesBefore == {i \in RequiredSet : DoneCount(i) > 0}

IdentitiesAfter == NamedIn(Tail(pending)) \ (IdentitiesBefore \cup {FailingIdentity})

\* C31: when the reconciliation fails at an identity, every identity of an
\* entry before it keeps, in the directory, the secret the run issued for it
\* (the live secret is the one in the map, the secret it had at the start is
\* no longer live); the directory entry of an identity named only after the
\* failing one, and that of every signer the list does not name, is as it
\* was at the start, and no call was made for it.
C31_NoRollbackOnFailure ==
    abortedAt = "reconcile" =>
        /\ pc = "done"
        /\ pending # <<>>
        /\ FailingIdentity # <<>>
        /\ DOMAIN apiKeyPerRequiredApprover = IdentitiesBefore
        /\ \A i \in IdentitiesBefore :
              LET signerID == SignerIDOf(i)
              IN /\ apiKeyPerRequiredApprover[i] =
                       Key(signerID, atStart.dir[signerID] + DoneCount(i))
                 /\ dir[signerID] >= atStart.dir[signerID] + DoneCount(i)
                 /\ i # FailingIdentity => IsLive(dir, apiKeyPerRequiredApprover[i])
                 /\ ~IsLive(dir, Key(signerID, atStart.dir[signerID]))
                 /\ Creates(i) + Rotates(i) >= DoneCount(i)
        /\ \A i \in IdentitiesAfter :
              /\ dir[SignerIDOf(i)] = atStart.dir[SignerIDOf(i)]
              /\ \A k \in 1..Len(calls) : calls[k].who # SignerIDOf(i)
        /\ \A signerID \in SignerIDs :
              signerID \notin {SignerIDOf(i) : i \in RequiredSet} =>
                  dir[signerID] = atStart.dir[signerID]
        /\ ledger = atStart.ledger

C31_Witness ==
    /\ abortedAt = "reconcile"
    /\ RequiredList = <<<<"alice">>, <<"bob">>>>
    /\ atStart.dir[SignerIDOf(<<"alice">>)] = 1
    /\ dir[SignerIDOf(<<"alice">>)] = 2
    /\ Len(calls) = 3
    /\ calls[3].res = "error"

\* ======================================================================
\* Two runs at the same time
\* ======================================================================
\* Two approvals at about the same time start the workflow twice: a second
\* main() runs with the same required approvers and its own approver, on the
\* same directory and ledger. Its steps are those of main, on the fields of
\* `other`. A run waits for the answer of each request before it sends the
\* next, so a step of a run is one request: a lookup, a create or rotate, or
\* one ledger call; the steps of the two runs interleave in any order, also
\* between the lookup and the create or rotate of one identity.

\* Required-approvers lists of the workflow: user names, no blanks, each user
\* once.
RaceLists ==
    {list \in UNION {[1..n -> Identities] : n \in 1..MaxEntries} :
        \A j, k \in 1..Len(list) : j # k => list[j] # list[k]}

InitRace ==
    /\ \E list \in RaceLists, a \in Approvers :
          /\ args = [requiredApprovers |-> Join(list, ","), approver |-> a]
          /\ dir \in [SignerIDs -> {0, 1}]
          /\ ledger = [s \in SignerIDs |-> NoRecord]
          /\ \A i \in Identities \ NamedIn(list) : dir[SignerIDOf(i)] = 0
    /\ RunStart
    /\ runs = 1
    /\ approved = {}
    /\ other = NoOtherRun

otherFrame == <<args, pc, runVars, outcome, abortedAt, calls, atStart, runs, approved,
                artifact, apiKeyFound>>

\* main, lines 58-66, of the second run: it starts at any time, with the
\* same list and the approver of its review.
OtherValidateInputs ==
    /\ other.pc = "idle"
    /\ \E a \in Approvers :
          LET ra == requireArg(args.requiredApprovers)
              ap == requireArg(a)
          IN other' = IF ra.ok /\ ap.ok
                      THEN [other EXCEPT !.pc = "reconcile", !.approver = ap.val,
                                         !.pending = Split(ra.val, ",")]
                      ELSE [other EXCEPT !.pc = "done", !.outcome = "fatal",
                                         !.abortedAt = "validate"]
    /\ UNCHANGED <<otherFrame, dir, ledger>>

\* getAndRotateOrCreateAPIKeys, lines 211-219, of the second run.
OtherLookupStep ==
    /\ other.pc = "reconcile"
    /\ other.pending # <<>>
    /\ other.apiKeyFound = Nil
    /\ LET requiredApprover == TrimSpace(Head(other.pending))
       IN IF Len(requiredApprover) = 0
          THEN other' = [other EXCEPT !.pending = Tail(other.pending)]
          ELSE \E netGet \in NetRead :
                  LET found == getAPIKey(netGet,
                                         Items(dir, SignerIDOf(requiredApprover)))
                  IN other' =
                       IF found.err = "nil" \/ IsNotFound(found.err)
                       THEN [other EXCEPT
                               !.calls = Append(@, LookupCall(
                                             SignerIDOf(requiredApprover), found)),
                               !.apiKeyFound = found]
                       ELSE [other EXCEPT
                               !.calls = Append(@, LookupCall(
                                             SignerIDOf(requiredApprover), found)),
                               !.pc = "done", !.outcome = "fatal",
                               !.abortedAt = "reconcile"]
    /\ UNCHANGED <<otherFrame, dir, ledger>>

\* getAndRotateOrCreateAPIKeys, lines 220-229, of the second run.
OtherCreateOrRotateStep ==
    /\ other.pc = "reconcile"
    /\ other.apiKeyFound # Nil
    /\ \E netMod \in NetWrite :
          LET requiredApprover == TrimSpace(Head(other.pending))
              r == createOrRotate(dir, SignerIDOf(requiredApprover),
                                  other.apiKeyFound, netMod)
          IN /\ dir' = r.dir
             /\ other' =
                  IF r.err # "nil"
                  THEN [other EXCEPT !.calls = @ \o r.calls, !.apiKeyFound = Nil,
                                     !.pc = "done", !.outcome = "fatal",
                                     !.abortedAt = "reconcile"]
                  ELSE [other EXCEPT
                          !.calls = @ \o r.calls, !.apiKeyFound = Nil,
                          !.apiKeyPerRequiredApprover =
                              Put(@, requiredApprover, KeyOf(r)),
                          !.pending = Tail(other.pending)]
    /\ UNCHANGED <<otherFrame, ledger>>

\* main, lines 92-113, of the second run.
OtherArtifactFromGitRepo ==
    /\ other.pc = "reconcile"
    /\ other.pending = <<>>
    /\ \E extracted \in BOOLEAN :
          other' = IF extracted
                   THEN [other EXCEPT !.pc = "notarize"]
                   ELSE [other EXCEPT !.pc = "done", !.outcome = "fatal",
                                      !.abortedAt = "artifact"]
    /\ UNCHANGED <<otherFrame, dir, ledger>>

\* main, lines 115-128, of the second run.
OtherNotarizeStep ==
    /\ other.pc = "notarize"
    /\ IF NotarizationDue(other.apiKeyPerRequiredApprover, other.approver)
       THEN \E net \in NetLedger :
               LET notarizationKey == other.apiKeyPerRequiredApprover[other.approver]
                   r == notarize(ledger, dir, notarizationKey, net)
                   call == LedgerCall("notarize", other.approver, notarizationKey,
                                      IF r.err = "nil" THEN "ok" ELSE "error",
                                      GitArtifact)
               IN /\ ledger' = r.ledger
                  /\ other' =
                       IF r.err # "nil"
                       THEN [other EXCEPT !.calls = Append(@, call), !.pc = "done",
                                          !.outcome = "fatal", !.abortedAt = "notarize"]
                       ELSE [other EXCEPT
                               !.calls = Append(@, call), !.pc = "verify",
                               !.toVerify = RangeOver(other.apiKeyPerRequiredApprover)]
       ELSE /\ other' = [other EXCEPT
                           !.pc = "verify",
                           !.toVerify = RangeOver(other.apiKeyPerRequiredApprover)]
            /\ UNCHANGED ledger
    /\ UNCHANGED <<otherFrame, dir>>

\* main, lines 135-171, one iteration, of the second run.
OtherVerifyStep ==
    /\ other.pc = "verify"
    /\ \E requiredApprover \in other.toVerify, net \in NetLedger :
          LET apiKey == other.apiKeyPerRequiredApprover[requiredApprover]
              r == verify(ledger, dir, apiKey, net)
              call == LedgerCall("verify", requiredApprover, apiKey,
                                 Answer(ledger, dir, apiKey, net), GitArtifact)
          IN other' =
               IF r.err # "nil"
               THEN [other EXCEPT !.calls = Append(@, call), !.pc = "done",
                                  !.outcome = "fatal", !.abortedAt = "verify"]
               ELSE [other EXCEPT
                       !.calls = Append(@, call),
                       !.toVerify = RestAfter(@, requiredApprover),
                       !.notarizedApprovers =
                           IF r.artifact # Nil /\ IsNotarized(r.artifact)
                           THEN Append(@, requiredApprover)
                           ELSE @]
    /\ UNCHANGED <<otherFrame, dir, ledger>>

\* main, lines 172-188, of the second run.
OtherAggregate ==
    /\ other.pc = "verify"
    /\ other.toVerify = {}
    /\ other' = [other EXCEPT
                   !.pc = "done",
                   !.outcome = IF AllNotarized(other.notarizedApprovers,
                                               other.apiKeyPerRequiredApprover)
                               THEN "success"
                               ELSE "shortfall"]
    /\ UNCHANGED <<otherFrame, dir, ledger>>

NextRace ==
    \/ Next
    \/ OtherValidateInputs
    \/ OtherLookupStep
    \/ OtherCreateOrRotateStep
    \/ OtherArtifactFromGitRepo
    \/ OtherNotarizeStep
    \/ OtherVerifyStep
    \/ OtherAggregate

SpecRace == InitRace /\ [][NextRace]_vars

\* ------------------------------------------ properties (two runs)
\* The keys the directory issued to a run, by its call log.
IssuedKeys(log) ==
    {log[k].key : k \in {j \in 1..Len(log) : /\ log[j].op \in {"create", "rotate"}
                                             /\ log[j].res = "ok"}}

\* The keys the directory issued to a run by a rotation.
RotatedKeys(log) ==
    {log[k].key : k \in {j \in 1..Len(log) : /\ log[j].op = "rotate"
                                             /\ log[j].res = "ok"}}

\* The ledger calls of a log made with a key that was not live.
StaleCalls(log) ==
    {k \in 1..Len(log) : log[k].op \in {"notarize", "verify"} /\ ~log[k].live}

\* A run uses for its ledger calls the keys of its map, as the directory
\* issued them in its reconciliation, and makes no directory call after its
\* first ledger call.
UsesKeysAsObtained(log, m) ==
    \A k \in 1..Len(log) :
        log[k].op \in {"notarize", "verify"} =>
            /\ log[k].who \in DOMAIN m
            /\ log[k].key = m[log[k].who]
            /\ log[k].key \in IssuedKeys(log)
            /\ \A j \in (k + 1)..Len(log) : log[j].op \notin DirectoryOps

\* A ledger call with a key that is not live fails, and the key is not live
\* because the other run had a key issued for the same signer.
StaleOnlyByOtherRun(log, otherLog) ==
    \A k \in StaleCalls(log) :
        /\ log[k].res = "error"
        /\ k = Len(log)
        /\ \E j \in 1..Len(otherLog) :
              /\ otherLog[j].op \in {"create", "rotate"}
              /\ otherLog[j].who = log[k].key.signer

\* C32: with two runs at the same time, each run makes its ledger calls with
\* the keys it obtained in its reconciliation, without any directory call in
\* between; a key issued by a rotation is a new one, so of the keys the two
\* runs hold for a shared identity, one of them rotated, at most one is live
\* (two keys created under one signer ID are left to the directory); a
\* ledger call is made with a key that is not live only when the other run
\* had a key issued for that signer, and such a call fails and aborts the
\* run. A run alone never uses a key that is not live.
C32_RunsShareNoLiveKey ==
    /\ UsesKeysAsObtained(calls, apiKeyPerRequiredApprover)
    /\ UsesKeysAsObtained(other.calls, other.apiKeyPerRequiredApprover)
    /\ RotatedKeys(calls) \cap IssuedKeys(other.calls) = {}
    /\ IssuedKeys(calls) \cap RotatedKeys(other.calls) = {}
    /\ \A i \in DOMAIN apiKeyPerRequiredApprover \cap DOMAIN other.apiKeyPerRequiredApprover :
          (\/ apiKeyPerRequiredApprover[i] \in RotatedKeys(calls)
           \/ other.apiKeyPerRequiredApprover[i] \in RotatedKeys(other.calls)) =>
              /\ apiKeyPerRequiredApprover[i] # other.apiKeyPerRequiredApprover[i]
              /\ ~(/\ IsLive(dir, apiKeyPerRequiredApprover[i])
                   /\ IsLive(dir, other.apiKeyPerRequiredApprover[i]))
    /\ StaleOnlyByOtherRun(calls, other.calls)
    /\ StaleOnlyByOtherRun(other.calls, calls)
    /\ StaleCalls(calls) # {} => pc = "done" /\ outcome = "fatal"
    /\ StaleCalls(other.calls) # {} => other.pc = "done" /\ other.outcome = "fatal"
    /\ other.pc = "idle" => StaleCalls(calls) = {}

\* The first run obtained the key of a shared identity, the second run then
\* rotated it, and the first run verified with the key it held.
C32_Witness ==
    /\ pc = "done"
    /\ abortedAt = "verify"
    /\ StaleCalls(calls) = {Len(calls)}
    /\ calls[Len(calls)].key \in IssuedKeys(calls)
    /\ \E j \in 1..Len(other.calls) :
          /\ other.calls[j].op = "rotate"
          /\ other.calls[j].res = "ok"
          /\ other.calls[j].who = calls[Len(calls)].key.signer
          /\ other.calls[j].key.secret = calls[Len(calls)].key.secret + 1

\* ======================================================================
\* Version 2 of main: API keys may be supplied directly
\* ======================================================================
\* getArg: the trimmed argument, the default value when it is empty; a
\* required argument that is empty after trimming aborts the run.
getArg(arg, required, defaultVal) ==
    LET argVal == TrimSpace(arg)
    IN [val |-> IF Len(argVal) = 0 /\ Len(defaultVal) > 0 THEN defaultVal ELSE argVal,
        ok |-> ~(required /\ Len(argVal) = 0)]

\* strconv.ParseBool on the values the "no TLS" argument takes here.
ParseBool(s) ==
    [val |-> s = <<"true">>,
     err |-> IF s \in {<<"true">>, <<"false">>} THEN "nil" ELSE "error"]

\* main (v2), lines 73-84: the arguments that are needed to create or rotate
\* API keys and are empty although no API key was given.
emptyRequiredArgs(cnilAPIKeysStr, cnilToken, cnilLedgerID, required) ==
    IF Len(cnilAPIKeysStr) = 0
    THEN (IF Len(cnilToken) = 0 THEN <<"CNIL REST API personal token">> ELSE <<>>)
         \o (IF Len(cnilLedgerID) = 0 THEN <<"CNIL ledger ID">> ELSE <<>>)
         \o (IF Len(required) = 0 THEN <<"required PR approvers">> ELSE <<>>)
    ELSE <<>>

\* Variant: the directory is used whether or not API keys were given.
KeysGiven_Never(cnilAPIKeysStr) == FALSE

\* main (v2), line 103: API keys were given, the directory is not used.
KeysGiven(cnilAPIKeysStr) == Len(cnilAPIKeysStr) # 0

\* strings.HasSuffix and strings.TrimSuffix.
HasSuffix(s, suffix) ==
    /\ Len(s) >= Len(suffix)
    /\ SubSeq(s, Len(s) - Len(suffix) + 1, Len(s)) = suffix

TrimSuffix(s, suffix) ==
    IF HasSuffix(s, suffix) THEN SubSeq(s, 1, Len(s) - Len(suffix)) ELSE s

\* strings.Join(pieces, sep) for a separator of any length.
RECURSIVE JoinStr(_, _)
JoinStr(pieces, sep) ==
    IF pieces = <<>> THEN <<>>
    ELSE IF Len(pieces) = 1 THEN pieces[1]
    ELSE pieces[1] \o sep \o JoinStr(Tail(pieces), sep)

\* The secrets that occur in supplied API keys, as numbers of the directory
\* (0: a secret the directory never issued).
SecretNumber(secret) ==
    IF secret = <<"XYZ">> THEN 1
    ELSE IF secret = <<"ABC">> THEN 2
    ELSE 0

\* An API key string <signer ID>.<secret> as the key it is on the ledger: the
\* signer ID is the name of the API key, the secret follows the last dot.
APIKeyFromString(ak) ==
    LET pieces == Split(ak, ".")
    IN Key(Join(SubSeq(pieces, 1, Len(pieces) - 1), "."),
           SecretNumber(pieces[Len(pieces)]))

Supplied(err, m, arr) == [err |-> err, map |-> m, arr |-> arr]

\* Variant: a second API key of a signer replaces the first.
RECURSIVE SuppliedAPIKeys_LastWins(_, _, _)
SuppliedAPIKeys_LastWins(cnilAPIKeys, m, arr) ==
    IF cnilAPIKeys = <<>> THEN Supplied("nil", m, arr)
    ELSE LET ak == Head(cnilAPIKeys)
             pieces == Split(ak, ".")
             signerID == TrimSuffix(Join(SubSeq(pieces, 1, Len(pieces) - 1), "."),
                                    identitySuffix)
         IN IF Len(pieces) < 2 THEN Supplied("unsupported", m, arr)
            ELSE SuppliedAPIKeys_LastWins(Tail(cnilAPIKeys),
                                          Put(m, signerID, APIKeyFromString(ak)),
                                          Append(arr, signerID))

\* Variant: the signer ID is what precedes the first dot.
RECURSIVE SuppliedAPIKeys_FirstDot(_, _, _)
SuppliedAPIKeys_FirstDot(cnilAPIKeys, m, arr) ==
    IF cnilAPIKeys = <<>> THEN Supplied("nil", m, arr)
    ELSE LET ak == Head(cnilAPIKeys)
             pieces == Split(ak, ".")
             signerID == TrimSuffix(pieces[1], identitySuffix)
         IN IF Len(pieces) < 2 THEN Supplied("unsupported", m, arr)
            ELSE IF signerID \in DOMAIN m THEN Supplied("duplicate", m, arr)
            ELSE SuppliedAPIKeys_FirstDot(Tail(cnilAPIKeys),
                                          Put(m, signerID, APIKeyFromString(ak)),
                                          Append(arr, signerID))

\* main (v2), lines 120-135, the loop over the given API keys: a key without
\* dot aborts; the signer ID is what precedes the last dot, without the
\* identity suffix; a second key of the same signer ID aborts; the key is
\* stored under its signer ID.
RECURSIVE SuppliedAPIKeys(_, _, _)
SuppliedAPIKeys(cnilAPIKeys, m, arr) ==
    IF cnilAPIKeys = <<>> THEN Supplied("nil", m, arr)
    ELSE LET ak == Head(cnilAPIKeys)
             pieces == Split(ak, ".")
             signerID == TrimSuffix(Join(SubSeq(pieces, 1, Len(pieces) - 1), "."),
                                    identitySuffix)
         IN IF Len(pieces) < 2 THEN Supplied("unsupported", m, arr)
            ELSE IF signerID \in DOMAIN m THEN Supplied("duplicate", m, arr)
            ELSE SuppliedAPIKeys(Tail(cnilAPIKeys),
                                 Put(m, signerID, APIKeyFromString(ak)),
                                 Append(arr, signerID))

\* ------------------------------------------------------ input sets (v2)
\* API keys as they may be given: of two signer IDs, with and without the
\* identity suffix, of a signer ID with a dot, and one without secret.
RawKeys ==
    {<<"alice", "@github", ".", "XYZ">>, <<"alice", "@github", ".", "ABC">>,
     <<"alice", ".", "XYZ">>, <<"bob", "@github", ".", "XYZ">>,
     <<"al", ".", "ice", "@github", ".", "XYZ">>, <<"alice", "@github">>}

KeyLists == {<<>>} \cup UNION {[1..n -> RawKeys] : n \in 1..MaxEntries}

\* The signer IDs the ledger and the directory know in these runs.
KeySigners == SignerIDs \cup {<<"alice">>, <<"al", ".", "ice", "@github">>}

RequiredListsV2 == {<<>>, <<"alice", ",", "bob">>}

ApproversV2 == {<<>>, <<"alice">>, <<"carol">>}

Tokens == {<<>>, <<"token">>}

LedgerIDs == {<<>>, <<"ledger">>}

NoTLSValues == {<<>>, <<"bogus">>}

InitV2 ==
    /\ \E keys \in KeyLists, list \in RequiredListsV2, a \in ApproversV2,
          token \in Tokens, ledgerID \in LedgerIDs, noTLS \in NoTLSValues :
          args = [cnilNoTLS |-> noTLS, approver |-> a,
                  cnilAPIKeysStr |-> Join(keys, ","), cnilToken |-> token,
                  cnilLedgerID |-> ledgerID, requiredApprovers |-> list]
    /\ \E live \in {0, 1} : dir = [s \in KeySigners |-> live]
    /\ ledger \in [KeySigners -> {NoRecord, SignedRecord}]
    /\ \A s \in KeySigners \ SignerIDs : ledger[s] = NoRecord
    /\ RunStart
    /\ runs = 1
    /\ approved = {}
    /\ other = NoOtherRun

\* main (v2), lines 61-99: the arguments are trimmed; the approver must not
\* be empty; without API keys the token, the ledger ID and the required
\* approvers must not be empty; the "no TLS" value must parse.
GetArgs ==
    /\ pc = "validate"
    /\ LET ap == getArg(args.approver, TRUE, <<>>)
           noTLS == getArg(args.cnilNoTLS, FALSE, <<"false">>)
           cnilAPIKeysStr == getArg(args.cnilAPIKeysStr, FALSE, <<>>)
           cnilToken == getArg(args.cnilToken, FALSE, <<>>)
           cnilLedgerID == getArg(args.cnilLedgerID, FALSE, <<>>)
           required == getArg(args.requiredApprovers, FALSE, <<>>)
           missing == emptyRequiredArgs(cnilAPIKeysStr.val, cnilToken.val,
                                        cnilLedgerID.val, required.val)
       IN IF ap.ok /\ Len(missing) = 0 /\ ParseBool(noTLS.val).err = "nil"
          THEN /\ requiredApprovers' = required.val
               /\ approver' = ap.val
               /\ IF KeysGiven(cnilAPIKeysStr.val)
                  THEN /\ pending' = Split(cnilAPIKeysStr.val, ",")
                       /\ Goto("supplied")
                  ELSE /\ pending' = Split(required.val, ",")
                       /\ Goto("reconcile")
          ELSE /\ Abort("validate")
               /\ UNCHANGED <<requiredApprovers, approver, pending>>
    /\ UNCHANGED <<args, apiKeyPerRequiredApprover, cnilAPIKey, toVerify,
                   notarizedApprovers, report, calls, dir, ledger, atStart, earlier,
                   artifact>>

\* main (v2), lines 118-137: the given API keys are stored per signer ID and
\* the required approvers are the signer IDs of the keys; a key of the wrong
\* form or a second key of a signer ID aborts.
SuppliedKeysStep ==
    /\ pc = "supplied"
    /\ pending # <<>>
    /\ LET r == SuppliedAPIKeys(pending, apiKeyPerRequiredApprover, <<>>)
       IN IF r.err # "nil"
          THEN /\ Abort("supplied")
               /\ apiKeyPerRequiredApprover' = r.map
               /\ UNCHANGED <<requiredApprovers, pending>>
          ELSE /\ apiKeyPerRequiredApprover' = r.map
               /\ requiredApprovers' = JoinStr(r.arr, <<",", " ">>)
               /\ pending' = <<>>
               /\ Goto("supplied")
    /\ UNCHANGED <<args, approver, cnilAPIKey, toVerify, notarizedApprovers, report,
                   calls, dir, ledger, atStart, earlier,
                   artifact>>

\* main (v2), lines 139-145: the artifact of the commit is extracted once the
\* given API keys are stored; a failure aborts.
SuppliedArtifact ==
    /\ pc = "supplied"
    /\ pending = <<>>
    /\ \E extracted \in BOOLEAN :
          IF extracted
          THEN Goto("notarize") /\ artifact' = GitArtifact
          ELSE Abort("artifact") /\ UNCHANGED artifact
    /\ UNCHANGED <<args, runVars, calls, dir, ledger, atStart, earlier>>

NextV2 ==
    \/ GetArgs
    \/ SuppliedKeysStep
    \/ SuppliedArtifact
    \/ LookupStep
    \/ CreateOrRotateStep
    \/ ArtifactFromGitRepo
    \/ NotarizeStep
    \/ VerifyStep
    \/ Aggregate

SpecV2 == InitV2 /\ [][NextV2]_vars

\* ---------------------------------------------------- properties (v2)
\* API keys were given to the run.
KeysSupplied == Len(TrimSpace(args.cnilAPIKeysStr)) # 0

GivenKeys == Split(TrimSpace(args.cnilAPIKeysStr), ",")

HasSeparator(ak) == \E k \in 1..Len(ak) : ak[k] = "."

\* The position of the last dot of a key that has one.
LastDot(ak) == CHOOSE k \in 1..Len(ak) : ak[k] = "." /\ \A j \in (k + 1)..Len(ak) : ak[j] # "."

\* The identity a supplied API key stands for: what precedes its last dot,
\* without the identity suffix.
DecodedIdentity(ak) == TrimSuffix(SubSeq(ak, 1, LastDot(ak) - 1), identitySuffix)

MalformedKeyGiven == \E k \in 1..Len(GivenKeys) : ~HasSeparator(GivenKeys[k])

DuplicateKeyGiven ==
    \E j, k \in 1..Len(GivenKeys) :
        /\ j < k
        /\ HasSeparator(GivenKeys[j])
        /\ HasSeparator(GivenKeys[k])
        /\ DecodedIdentity(GivenKeys[j]) = DecodedIdentity(GivenKeys[k])

MissingDirectoryArgs ==
    \/ Len(TrimSpace(args.cnilToken)) = 0
    \/ Len(TrimSpace(args.cnilLedgerID)) = 0
    \/ Len(TrimSpace(args.requiredApprovers)) = 0

InputError ==
    IF KeysSupplied THEN MalformedKeyGiven \/ DuplicateKeyGiven ELSE MissingDirectoryArgs

\* C11: a run with an input error (two supplied API keys of the same identity,
\* a supplied key without separator, or no key and no token, ledger ID or
\* required-approvers list) never gets past the reading of its inputs: it
\* makes no directory, notarize or verify call, changes neither the directory
\* nor the ledger, and ends in a fatal abort.
C11_InputErrorBeforeAnyCall ==
    InputError =>
        /\ calls = <<>>
        /\ dir = atStart.dir
        /\ ledger = atStart.ledger
        /\ \/ pc = "validate"
           \/ pc = "supplied" /\ pending # <<>>
           \/ pc = "done" /\ outcome = "fatal" /\ abortedAt \in {"validate", "supplied"}

C11_Witness ==
    /\ GivenKeys = <<<<"alice", "@github", ".", "XYZ">>, <<"alice", "@github", ".", "ABC">>>>
    /\ pc = "done"
    /\ outcome = "fatal"
    /\ abortedAt = "supplied"
    /\ DOMAIN apiKeyPerRequiredApprover = {<<"alice">>}
    /\ calls = <<>>

\* The supplied API keys were all stored.
SuppliedKeysStored ==
    \/ pc = "supplied" /\ pending = <<>>
    \/ pc \in {"notarize", "verify"}
    \/ pc = "done" /\ abortedAt \notin {"validate", "supplied"}

DecodedIdentities == {DecodedIdentity(GivenKeys[k]) : k \in 1..Len(GivenKeys)}

\* C12: when API keys are supplied the run makes no lookup, create or rotate
\* call and leaves the directory as it was; once the keys are stored the
\* required approvers are exactly the identities the keys decode to, whatever
\* the token, the ledger ID and the required-approvers arguments are, and
\* only these identities are notarized or verified.
C12_SuppliedKeysBypassDirectory ==
    KeysSupplied =>
        /\ \A k \in 1..Len(calls) : calls[k].op \notin DirectoryOps
        /\ dir = atStart.dir
        /\ SuppliedKeysStored =>
              /\ DOMAIN apiKeyPerRequiredApprover = DecodedIdentities
              /\ \A k \in 1..Len(calls) : calls[k].who \in DecodedIdentities
        /\ FullPass =>
              \A i \in DecodedIdentities : CountCalls("verify", i) = 1

C12_Witness ==
    /\ KeysSupplied
    /\ args.requiredApprovers = <<"alice", ",", "bob">>
    /\ args.cnilToken = <<>>
    /\ pc = "done"
    /\ outcome = "success"
    /\ DOMAIN apiKeyPerRequiredApprover = {<<"alice">>}
    /\ Len(VerifyCalls) = 1

\* What precedes and what follows the last dot of a supplied API key.
BeforeLastDot(ak) == SubSeq(ak, 1, LastDot(ak) - 1)

AfterLastDot(ak) == SubSeq(ak, LastDot(ak) + 1, Len(ak))

\* The supplied string as the key the ledger is called with.
SuppliedKey(ak) == Key(BeforeLastDot(ak), SecretNumber(AfterLastDot(ak)))

UserDotSecret == <<"alice", ".", "XYZ">>
UserAtGithubDotSecret == <<"alice", "@github", ".", "XYZ">>
DottedUserKey == <<"al", ".", "ice", "@github", ".", "XYZ">>

\* C28: once the supplied API keys are stored, each is stored, whole, under
\* what precedes its last dot without a trailing identity suffix, and the
\* ledger calls for that identity are made with it: <user>@github.<secret>
\* and <user>.<secret> are both stored under <user>, an identity with a dot
\* keeps its dot; two keys that stand for the same identity, such as these
\* two forms of one user, are never stored together.
C28_SuppliedKeyDecoding ==
    KeysSupplied =>
        /\ SuppliedKeysStored =>
              /\ \A k \in 1..Len(GivenKeys) :
                    LET ak == GivenKeys[k]
                        before == BeforeLastDot(ak)
                        id == IF HasSuffix(before, identitySuffix)
                              THEN SubSeq(before, 1, Len(before) - Len(identitySuffix))
                              ELSE before
                    IN /\ HasSeparator(ak)
                       /\ id \in DOMAIN apiKeyPerRequiredApprover
                       /\ apiKeyPerRequiredApprover[id] = SuppliedKey(ak)
                       /\ \A c \in 1..Len(calls) :
                             calls[c].who = id => calls[c].key = SuppliedKey(ak)
              /\ Cardinality(DOMAIN apiKeyPerRequiredApprover) = Len(GivenKeys)
              /\ UserDotSecret \in Range(GivenKeys) =>
                    /\ <<"alice">> \in DOMAIN apiKeyPerRequiredApprover
                    /\ apiKeyPerRequiredApprover[<<"alice">>].signer = <<"alice">>
              /\ UserAtGithubDotSecret \in Range(GivenKeys) =>
                    /\ <<"alice">> \in DOMAIN apiKeyPerRequiredApprover
                    /\ apiKeyPerRequiredApprover[<<"alice">>].signer = <<"alice", "@github">>
              /\ DottedUserKey \in Range(GivenKeys) =>
                    /\ <<"al", ".", "ice">> \in DOMAIN apiKeyPerRequiredApprover
                    /\ <<"al">> \notin DOMAIN apiKeyPerRequiredApprover
        /\ {UserDotSecret, UserAtGithubDotSecret} \subseteq Range(GivenKeys) =>
              /\ ~SuppliedKeysStored
              /\ calls = <<>>
              /\ pc = "done" => abortedAt \in {"validate", "supplied"}

C28_Witness ==
    /\ GivenKeys = <<DottedUserKey, UserDotSecret>>
    /\ pc = "done"
    /\ abortedAt = "none"
    /\ DOMAIN apiKeyPerRequiredApprover = {<<"al", ".", "ice">>, <<"alice">>}
    /\ Len(VerifyCalls) = 2

====
